---- MODULE Spec2Model ----
(***************************************************************************)
(* LifeLink LoRa mesh node (esp32/lifelink/src/lifelink_lora_node.cpp).    *)
(*                                                                         *)
(* Every LifeLinkLoRaNode object is a record of its fields; the methods    *)
(* of the class are operators from a node record (and the clock) to the    *)
(* node record after the call, composed in the order the code calls them.  *)
(* The variable `node` holds one object per node id, `now` is millis(),    *)
(* `adj` is the radio topology and `env` is the bookkeeping of the         *)
(* environment that feeds frames to a node.                                *)
(***************************************************************************)
EXTENDS Integers, Sequences, FiniteSets, TLC

VARIABLES node, now, adj, env

vars == <<node, now, adj, env>>

(***************************************************************************)
(* Program constants (lifelink_lora_node.h).                               *)
(***************************************************************************)
kHeartbeatIntervalMs == 1500
kHeartbeatJitterMs == 1500
kMembershipTimeoutMs == 15000
kTestDataIntervalMs == 12000
kAckTimeoutMs == 12000
kDefaultTtl == 4
kMaxGossipEntries == 12
kMaxMembers == 24
kMaxSeen == 64
kMaxTxQueue == 12
kMaxPendingData == 12
kMaxMessageHistory == 64
kHopChannelCount == 2
kHopIntervalMs == 5000
kGossipStrSize == 120
kHopSeedHi == 42419
kHopSeedLo == 22291
kHopMul == 1103515245
kHopInc == 12345

(***************************************************************************)
(* Fixed-width unsigned arithmetic.  A uint32_t is written as the 32-bit   *)
(* two's complement integer with the same bits, so a value below 2^31 is   *)
(* itself and a value from 2^31 up is the value minus 2^32; the operators  *)
(* work on 16-bit halves so that no intermediate result leaves that range. *)
(***************************************************************************)
U8 == 2^8
U16 == 2^16

Hi16(x) == (x \div U16) % U16
Lo16(x) == x % U16
W32(hi, lo) == (IF hi >= 2^15 THEN hi - U16 ELSE hi) * U16 + lo

ToU32(x) == W32(Hi16(x), Lo16(x))

Add32(a, b) ==
    LET lo == Lo16(a) + Lo16(b)
        hi == Hi16(a) + Hi16(b) + (lo \div U16)
    IN  W32(hi % U16, lo % U16)

Sub32(a, b) ==
    LET lo == Lo16(a) - Lo16(b)
        hi == Hi16(a) - Hi16(b) + (lo \div U16)
    IN  W32(hi % U16, lo % U16)

(* Unsigned order of two uint32_t values. *)
Lt32(a, b) == IF (a < 0) = (b < 0) THEN a < b ELSE b < 0
Le32(a, b) == a = b \/ Lt32(a, b)
Gt32(a, b) == Lt32(b, a)
Ge32(a, b) == Le32(b, a)

RECURSIVE Xor16(_, _, _)
Xor16(a, b, bits) ==
    IF bits = 0 THEN 0
    ELSE (((a % 2) + (b % 2)) % 2) + 2 * Xor16(a \div 2, b \div 2, bits - 1)

Xor32(a, b) == W32(Xor16(Hi16(a), Hi16(b), 16), Xor16(Lo16(a), Lo16(b), 16))

(* The product of two 16-bit values as a uint32_t. *)
Mul16(x, y) ==
    LET p0 == x * (y % U8)
        p1 == x * (y \div U8)
    IN  Add32(W32((p1 \div U8) % U16, (p1 % U8) * U8), p0)

Mul32(a, b) ==
    LET cross == (Lo16(Mul16(Lo16(a), Hi16(b))) + Lo16(Mul16(Hi16(a), Lo16(b)))) % U16
    IN  Add32(Mul16(Lo16(a), Lo16(b)), W32(cross, 0))

(* a >> 13 *)
Shr13(a) == Hi16(a) * 2^3 + (Lo16(a) \div 2^13)

SetMin(S) == CHOOSE x \in S : \A y \in S : x <= y

Trunc(str, n) == IF Len(str) > n THEN SubSeq(str, 1, n) ELSE str

RECURSIVE Digits(_)
Digits(n) == IF n < 0 THEN 10 ELSE IF n < 10 THEN 1 ELSE 1 + Digits(n \div 10)

(***************************************************************************)
(* Node identity: begin() derives hop_seed_ and node_name_ from node_id_.  *)
(***************************************************************************)
HopSeedOf(id) == Xor32(W32(id % U16, 0), W32(kHopSeedHi, kHopSeedLo))

NodeNameOf(id) ==
    CASE id = 1 -> "Node-0001"
      [] id = 2 -> "Node-0002"
      [] id = 3 -> "Node-0003"
      [] id = 4 -> "Node-0004"
      [] id = 5 -> "Node-0005"
      [] OTHER -> "Node-XXXX"

(***************************************************************************)
(* Table slots as the zero-initialised C++ structs.                        *)
(***************************************************************************)
MemberEntry0 ==
    [node_id |-> 0, last_seen_ms |-> 0, last_heartbeat_seq |-> 0, hop_seed |-> 0,
     hops_away |-> 0, via_node |-> 0, name |-> "", used |-> FALSE]

SeenEntry0 == [type |-> "", origin |-> 0, msg_id |-> 0, seen_at_ms |-> 0, used |-> FALSE]

PendingData0 == [msg_id |-> 0, dst |-> 0, sent_at_ms |-> 0, acked |-> FALSE, used |-> FALSE]

HistoryEntry0 ==
    [direction |-> "", peer |-> 0, msg_id |-> 0, vital |-> FALSE, intent |-> <<>>,
     urgency |-> 0, body |-> <<>>]

(* A wire frame.  H uses from, id (= seq), seed, name, ttl, hops, gossip;  *)
(* D and A use from, origin, dst, id (= msg_id), ttl, hops (and body).     *)
NoFrame ==
    [t |-> "", from |-> 0, origin |-> 0, dst |-> 0, id |-> 0, ttl |-> 0, hops |-> 0,
     seed |-> 0, name |-> "", body |-> <<>>, gossip |-> <<>>]

TxFrame0 == [payload |-> NoFrame, used |-> FALSE]

Triage0 == [is_vital |-> FALSE, wire_payload |-> <<>>, intent |-> <<>>, urgency |-> 0]

(***************************************************************************)
(* The object after construction (member initialisers of the class).       *)
(***************************************************************************)
NodeObject(id) ==
    [node_id |-> id,
     hop_seed |-> 0,
     node_name |-> "Node",
     state |-> "Idle",
     operation_done |-> FALSE,
     tx_packet |-> NoFrame,
     rx_packet |-> NoFrame,
     tx_count |-> 0,
     rx_count |-> 0,
     error_count |-> 0,
     current_hop_channel |-> 0,
     last_hop_seq |-> 0,
     hop_leader_id |-> 0,
     heartbeat_seq |-> 0,
     local_msg_seq |-> 0,
     next_heartbeat_at_ms |-> 0,
     next_hop_at_ms |-> 0,
     next_test_data_at_ms |-> 0,
     next_membership_print_at_ms |-> 0,
     last_rx_body |-> <<>>,
     last_rx_triage |-> Triage0,
     members |-> [i \in 0..(kMaxMembers - 1) |-> MemberEntry0],
     seen |-> [i \in 0..(kMaxSeen - 1) |-> SeenEntry0],
     tx_queue |-> [i \in 0..(kMaxTxQueue - 1) |-> TxFrame0],
     pending_data |-> [i \in 0..(kMaxPendingData - 1) |-> PendingData0],
     history |-> [i \in 0..(kMaxMessageHistory - 1) |-> HistoryEntry0],
     history_head |-> 0,
     history_count |-> 0,
     tx_q_head |-> 0,
     tx_q_tail |-> 0,
     tx_q_size |-> 0]

(***************************************************************************)
(* TX queue.                                                               *)
(***************************************************************************)
EnqueueOk(s) == s.tx_q_size < kMaxTxQueue

(* enqueueFrame without the test tx_q_size_ >= kMaxTxQueue. *)
enqueueFrame_NoFullTest(s, frame) ==
    [s EXCEPT !.tx_queue[s.tx_q_tail] = [payload |-> frame, used |-> TRUE],
              !.tx_q_tail = (s.tx_q_tail + 1) % kMaxTxQueue,
              !.tx_q_size = s.tx_q_size + 1]

enqueueFrame(s, frame) ==
    IF s.tx_q_size >= kMaxTxQueue THEN s
    ELSE [s EXCEPT !.tx_queue[s.tx_q_tail] = [payload |-> frame, used |-> TRUE],
                   !.tx_q_tail = (s.tx_q_tail + 1) % kMaxTxQueue,
                   !.tx_q_size = s.tx_q_size + 1]

(* dequeueFrame taking the newest frame (the slot before tx_q_tail_) in the *)
(* place of the oldest (the slot at tx_q_head_).                           *)
dequeueFrame_Newest(s) ==
    IF s.tx_q_size = 0 THEN s
    ELSE [s EXCEPT !.tx_packet = s.tx_queue[(s.tx_q_tail + kMaxTxQueue - 1) % kMaxTxQueue].payload,
                   !.tx_queue[(s.tx_q_tail + kMaxTxQueue - 1) % kMaxTxQueue].used = FALSE,
                   !.tx_q_tail = (s.tx_q_tail + kMaxTxQueue - 1) % kMaxTxQueue,
                   !.tx_q_size = s.tx_q_size - 1]

dequeueFrame(s) ==
    IF s.tx_q_size = 0 THEN s
    ELSE [s EXCEPT !.tx_packet = s.tx_queue[s.tx_q_head].payload,
                   !.tx_queue[s.tx_q_head].used = FALSE,
                   !.tx_q_head = (s.tx_q_head + 1) % kMaxTxQueue,
                   !.tx_q_size = s.tx_q_size - 1]

(* The queued frames, oldest first. *)
QueuedFrames(s) ==
    [k \in 1..s.tx_q_size |-> s.tx_queue[(s.tx_q_head + k - 1) % kMaxTxQueue].payload]

(***************************************************************************)
(* Membership table.                                                       *)
(***************************************************************************)
MemberSlots == 0..(kMaxMembers - 1)

(* Index of the first slot that satisfies a loop's test, or -1. *)
FirstOf(hits) == IF hits = {} THEN -1 ELSE SetMin(hits)

FindMember(members, node_id) ==
    FirstOf({i \in MemberSlots : members[i].used /\ members[i].node_id = node_id})

FreeMember(members) == FirstOf({i \in MemberSlots : ~members[i].used})

IsLive(m, t) == m.used /\ Le32(Sub32(t, m.last_seen_ms), kMembershipTimeoutMs)

(* The first loop of upsertMember, on the entry it found. *)
MemberRefresh(m, heartbeat_seq, hops_away, via_node, t) ==
    [m EXCEPT !.last_seen_ms = t,
              !.last_heartbeat_seq = IF heartbeat_seq # 0 THEN heartbeat_seq ELSE @,
              !.hops_away = IF hops_away > 0 /\ hops_away < m.hops_away THEN hops_away ELSE @,
              !.via_node = IF hops_away > 0 /\ hops_away < m.hops_away /\ via_node # 0
                           THEN via_node ELSE @]

(* The second loop of upsertMember, for the free slot it found. *)
MemberCreate(node_id, heartbeat_seq, hops_away, via_node, t) ==
    [node_id |-> node_id, last_seen_ms |-> t, last_heartbeat_seq |-> heartbeat_seq,
     hop_seed |-> 0, hops_away |-> IF hops_away > 0 THEN hops_away ELSE 1,
     via_node |-> IF via_node # 0 THEN via_node ELSE node_id,
     name |-> "unknown", used |-> TRUE]

upsertLoops(members, i, free, node_id, heartbeat_seq, hops_away, via_node, t) ==
    IF i >= 0
    THEN [members EXCEPT ![i] = MemberRefresh(@, heartbeat_seq, hops_away, via_node, t)]
    ELSE IF free >= 0
    THEN [members EXCEPT ![free] = MemberCreate(node_id, heartbeat_seq, hops_away, via_node, t)]
    ELSE members

(* upsertMember without the test node_id == node_id_. *)
upsertMember_NoSelfTest(s, node_id, heartbeat_seq, hops_away, via_node, t) ==
    [s EXCEPT !.members = upsertLoops(@, FindMember(@, node_id), FreeMember(@), node_id,
                                      heartbeat_seq, hops_away, via_node, t)]

upsertMember(s, node_id, heartbeat_seq, hops_away, via_node, t) ==
    IF node_id = s.node_id THEN s
    ELSE [s EXCEPT !.members = upsertLoops(@, FindMember(@, node_id), FreeMember(@), node_id,
                                           heartbeat_seq, hops_away, via_node, t)]

(* collectActivePeers: the live peers in table order. *)
RECURSIVE ActivePeersFrom(_, _, _)
ActivePeersFrom(members, t, i) ==
    IF i >= kMaxMembers THEN <<>>
    ELSE (IF IsLive(members[i], t) THEN <<members[i].node_id>> ELSE <<>>)
         \o ActivePeersFrom(members, t, i + 1)

collectActivePeers(s, t) == ActivePeersFrom(s.members, t, 0)

(***************************************************************************)
(* Duplicate suppressor.                                                   *)
(***************************************************************************)
SeenSlots == 0..(kMaxSeen - 1)

SeenAged(e, t) == e.used /\ Gt32(Sub32(t, e.seen_at_ms), kMembershipTimeoutMs)

SeenMatch(e, type, origin, msg_id, t) ==
    e.used /\ ~SeenAged(e, t) /\ e.type = type /\ e.origin = origin /\ e.msg_id = msg_id

SeenHits(seen, type, origin, msg_id, t) ==
    {i \in SeenSlots : SeenMatch(seen[i], type, origin, msg_id, t)}

(* The value hasSeenAndRemember returns: the first loop found a live match. *)
SeenHit(s, type, origin, msg_id, t) == SeenHits(s.seen, type, origin, msg_id, t) # {}

(* The first loop releases the aged entries it passes: those before the    *)
(* match on a hit, all of them on a miss.                                  *)
SeenSweep(seen, t, upto) ==
    [i \in SeenSlots |->
        IF i < upto /\ SeenAged(seen[i], t) THEN [seen[i] EXCEPT !.used = FALSE] ELSE seen[i]]

SeenFree(seen) == FirstOf({i \in SeenSlots : ~seen[i].used})

(* Index of the entry the third loop replaces: the smallest seen_at_ms,    *)
(* the lowest index among equals.                                          *)
SeenOldest(seen) ==
    SetMin({i \in SeenSlots :
              \A k \in SeenSlots :
                 /\ Le32(seen[i].seen_at_ms, seen[k].seen_at_ms)
                 /\ (k < i => Gt32(seen[k].seen_at_ms, seen[i].seen_at_ms))})

(* hasSeenAndRemember without its second loop: the key always replaces the *)
(* oldest entry.                                                           *)
SeenStore_NoFreeSlot(seen, entry) ==
    [seen EXCEPT ![SeenOldest(seen)] = entry]

(* The second and third loops: store in the first free slot, else over the *)
(* oldest entry.                                                           *)
SeenStore(seen, entry) ==
    IF SeenFree(seen) >= 0 THEN [seen EXCEPT ![SeenFree(seen)] = entry]
    ELSE [seen EXCEPT ![SeenOldest(seen)] = entry]

(* hasSeenAndRemember refreshing seen_at_ms of the entry it found. *)
hasSeenAndRemember_Refresh(s, type, origin, msg_id, t) ==
    [s EXCEPT !.seen =
        IF SeenHits(@, type, origin, msg_id, t) # {}
        THEN [SeenSweep(@, t, SetMin(SeenHits(@, type, origin, msg_id, t)))
                 EXCEPT ![SetMin(SeenHits(s.seen, type, origin, msg_id, t))].seen_at_ms = t]
        ELSE SeenStore(SeenSweep(@, t, kMaxSeen),
                       [type |-> type, origin |-> origin, msg_id |-> msg_id,
                        seen_at_ms |-> t, used |-> TRUE])]

hasSeenAndRemember(s, type, origin, msg_id, t) ==
    [s EXCEPT !.seen =
        IF SeenHits(@, type, origin, msg_id, t) # {}
        THEN SeenSweep(@, t, SetMin(SeenHits(@, type, origin, msg_id, t)))
        ELSE SeenStore(SeenSweep(@, t, kMaxSeen),
                       [type |-> type, origin |-> origin, msg_id |-> msg_id,
                        seen_at_ms |-> t, used |-> TRUE])]

markLocalMessageSeen(s, type, origin, msg_id, t) ==
    hasSeenAndRemember(s, type, origin, msg_id, t)

(***************************************************************************)
(* Pending outbound DATA.                                                  *)
(***************************************************************************)
PendingSlots == 0..(kMaxPendingData - 1)

PendingFree(pending) == FirstOf({i \in PendingSlots : ~pending[i].used})

addPendingData(s, msg_id, dst, t) ==
    IF PendingFree(s.pending_data) < 0 THEN s
    ELSE [s EXCEPT !.pending_data[PendingFree(s.pending_data)] =
             [msg_id |-> msg_id, dst |-> dst, sent_at_ms |-> t,
              acked |-> FALSE, used |-> TRUE]]

PendingMatch(pending, msg_id) ==
    FirstOf({i \in PendingSlots :
               pending[i].used /\ ~pending[i].acked /\ pending[i].msg_id = msg_id})

(* ackPendingData without pending_data_[i].used = false. *)
ackPendingData_StaysUsed(s, msg_id, from) ==
    IF PendingMatch(s.pending_data, msg_id) < 0 THEN s
    ELSE [s EXCEPT !.pending_data[PendingMatch(s.pending_data, msg_id)] =
             [@ EXCEPT !.acked = TRUE]]

ackPendingData(s, msg_id, from) ==
    IF PendingMatch(s.pending_data, msg_id) < 0 THEN s
    ELSE [s EXCEPT !.pending_data[PendingMatch(s.pending_data, msg_id)] =
             [@ EXCEPT !.acked = TRUE, !.used = FALSE]]

PendingExpired(p, t) == p.used /\ ~p.acked /\ Gt32(Sub32(t, p.sent_at_ms), kAckTimeoutMs)

(* expirePendingData without the test of the age. *)
expirePendingData_NoAge(s, t) ==
    [s EXCEPT !.pending_data = [i \in PendingSlots |->
        IF @[i].used /\ ~@[i].acked THEN [@[i] EXCEPT !.used = FALSE] ELSE @[i]]]

expirePendingData(s, t) ==
    [s EXCEPT !.pending_data = [i \in PendingSlots |->
        IF PendingExpired(@[i], t) THEN [@[i] EXCEPT !.used = FALSE] ELSE @[i]]]

(***************************************************************************)
(* Message history ring.                                                   *)
(***************************************************************************)
(* getMessageHistory with history_head_ for start. *)
getMessageHistory_FromHead(s, idx) == s.history[(s.history_head + idx) % kMaxMessageHistory]

(* What getMessageHistory returns, and what it writes to *out when it      *)
(* returns true (out is never nullptr here).                               *)
getMessageHistoryResult(s, idx) == idx < s.history_count

getMessageHistory(s, idx) ==
    s.history[(((s.history_head + kMaxMessageHistory - s.history_count) % kMaxMessageHistory)
               + idx) % kMaxMessageHistory]

appendHistory(s, direction, peer, msg_id, body, triage) ==
    [s EXCEPT !.history[s.history_head] =
                  [direction |-> direction, peer |-> peer, msg_id |-> msg_id,
                   vital |-> triage.is_vital, intent |-> Trunc(triage.intent, 11),
                   urgency |-> triage.urgency, body |-> Trunc(body, 51)],
              !.history_head = (s.history_head + 1) % kMaxMessageHistory,
              !.history_count = IF s.history_count < kMaxMessageHistory
                                THEN s.history_count + 1 ELSE s.history_count]

(***************************************************************************)
(* Frequency hopping.                                                      *)
(***************************************************************************)
(* selectHopLeader without the test now - last_seen_ms > kMembershipTimeoutMs. *)
selectHopLeader_NoLiveTest(s, t) ==
    SetMin({s.node_id % U16} \cup
           {s.members[i].node_id : i \in {k \in MemberSlots : s.members[k].used}})

(* The loop of selectHopLeader from slot i on, leader being the lowest id  *)
(* found in the slots before i.                                            *)
RECURSIVE HopLeaderFrom(_, _, _, _)
HopLeaderFrom(s, t, i, leader) ==
    IF i >= kMaxMembers THEN leader
    ELSE IF ~s.members[i].used THEN HopLeaderFrom(s, t, i + 1, leader)
    ELSE IF Gt32(Sub32(t, s.members[i].last_seen_ms), kMembershipTimeoutMs)
         THEN HopLeaderFrom(s, t, i + 1, leader)
    ELSE IF s.members[i].node_id < leader
         THEN HopLeaderFrom(s, t, i + 1, s.members[i].node_id)
    ELSE HopLeaderFrom(s, t, i + 1, leader)

selectHopLeader(s, t) == HopLeaderFrom(s, t, 0, s.node_id % U16)

HopMix(seed, seq) == Xor32(seed, Add32(Mul32(seq, kHopMul), kHopInc))

(* mixed ^= (mixed >> 16) in the place of mixed ^= (mixed >> 13). *)
HopFold_Shr16(mixed) == Xor32(mixed, W32(0, Hi16(mixed)))

HopFold(mixed) == Xor32(mixed, Shr13(mixed))

computeHopChannelIndex(seed, seq) == Lo16(HopFold(HopMix(seed, seq))) % kHopChannelCount

(* The entry of the leader when the leader is another node, else -1. *)
LeaderEntry(s) ==
    IF s.hop_leader_id # s.node_id % U16 THEN FindMember(s.members, s.hop_leader_id) ELSE -1

LeaderSeed(s, i) ==
    IF i >= 0 /\ s.members[i].hop_seed # 0 THEN s.members[i].hop_seed ELSE s.hop_seed

LeaderSeq(s, i) == IF i >= 0 THEN s.members[i].last_heartbeat_seq ELSE s.heartbeat_seq

(* rc_ok: whether radio_.setFrequency reports RADIOLIB_ERR_NONE. *)
HopTune(s, next_ch, force, rc_ok) ==
    IF ~force /\ next_ch = s.current_hop_channel THEN s
    ELSE IF rc_ok THEN [s EXCEPT !.current_hop_channel = next_ch]
    ELSE s

HopFollow(s, leader_seed, leader_seq, force, rc_ok) ==
    IF ~force /\ leader_seq = s.last_hop_seq THEN s
    ELSE HopTune([s EXCEPT !.last_hop_seq = leader_seq],
                 computeHopChannelIndex(leader_seed, leader_seq), force, rc_ok)

HopElected(s, force, rc_ok) ==
    HopFollow(s, LeaderSeed(s, LeaderEntry(s)), LeaderSeq(s, LeaderEntry(s)), force, rc_ok)

maybeApplyFrequencyHop(s, now_ms, force, rc_ok) ==
    IF ~force /\ Lt32(now_ms, s.next_hop_at_ms) THEN s
    ELSE HopElected([s EXCEPT !.next_hop_at_ms = Add32(now_ms, kHopIntervalMs),
                              !.hop_leader_id = selectHopLeader(s, now_ms)],
                    force, rc_ok)

(***************************************************************************)
(* Gossip.                                                                 *)
(***************************************************************************)
MemberAge(members, t, i) == Sub32(t, members[i].last_seen_ms)

(* buildGossipEntries without its insertion sort: table order. *)
Freshest_TableOrder(members, t, idxs) == CHOOSE i \in idxs : \A k \in idxs : i <= k

(* The entry the insertion sort puts first: the smallest age, the lowest   *)
(* slot among equal ages (the sort is stable).                             *)
Freshest(members, t, idxs) ==
    CHOOSE i \in idxs :
        \A k \in idxs : \/ Lt32(MemberAge(members, t, i), MemberAge(members, t, k))
                        \/ (MemberAge(members, t, i) = MemberAge(members, t, k) /\ i <= k)

RECURSIVE SortByAge(_, _, _)
SortByAge(members, t, idxs) ==
    IF idxs = {} THEN <<>>
    ELSE <<Freshest(members, t, idxs)>>
         \o SortByAge(members, t, idxs \ {Freshest(members, t, idxs)})

LiveSlots(s, t) == {i \in MemberSlots : IsLive(s.members[i], t)}

Min(a, b) == IF a < b THEN a ELSE b

GossipSelf(s) ==
    [node_id |-> s.node_id % U16, name |-> Trunc(s.node_name, 15),
     seq |-> s.heartbeat_seq, hops_away |-> 0]

GossipMember(m) ==
    [node_id |-> m.node_id, name |-> Trunc(m.name, 15),
     seq |-> m.last_heartbeat_seq, hops_away |-> m.hops_away]

GossipTake(members, order, n) == [k \in 1..n |-> GossipMember(members[order[k]])]

buildGossipEntries(s, t, max_entries) ==
    IF max_entries = 0 THEN <<>>
    ELSE <<GossipSelf(s)>> \o
         GossipTake(s.members, SortByAge(s.members, t, LiveSlots(s, t)),
                    Min(Cardinality(LiveSlots(s, t)), max_entries - 1))

(* The "G id:name:seq:hops;..." text in a 120-byte buffer: an entry is     *)
(* written only while pos + 30 < sizeof(gossip_str).                       *)
GossipEntryLen(e) == 4 + 1 + Len(e.name) + 1 + Digits(e.seq) + 1 + Digits(e.hops_away)

RECURSIVE GossipFit(_, _, _)
GossipFit(entries, k, pos) ==
    IF k > Len(entries) \/ ~(pos + 30 < kGossipStrSize) THEN <<>>
    ELSE <<entries[k]>> \o
         GossipFit(entries, k + 1, pos + (IF k > 1 THEN 1 ELSE 0) + GossipEntryLen(entries[k]))

GossipWire(s, t) == GossipFit(buildGossipEntries(s, t, kMaxGossipEntries), 1, 2)

(* processGossipEntries on an entry whose node has a used slot m. *)
GossipUpdate(s, ge, m, new_hops, via_node, t) ==
    IF \/ Lt32(s.members[m].last_heartbeat_seq, ge.seq)
       \/ (s.members[m].last_heartbeat_seq = ge.seq /\ s.members[m].hops_away > new_hops)
    THEN [s EXCEPT !.members[m] =
            [@ EXCEPT !.last_seen_ms = t,
                      !.last_heartbeat_seq = ge.seq,
                      !.hops_away = new_hops,
                      !.via_node = via_node,
                      !.name = IF ge.name # "" THEN ge.name ELSE @]]
    ELSE s

(* The name update after an insertion through upsertMember. *)
GossipName(s, ge) ==
    IF FindMember(s.members, ge.node_id) >= 0 /\ ge.name # ""
    THEN [s EXCEPT !.members[FindMember(s.members, ge.node_id)].name = ge.name]
    ELSE s

(* One iteration of the loop of processGossipEntries. *)
processGossipEntry(s, ge, via_node, t) ==
    IF ge.node_id = s.node_id % U16 THEN s
    ELSE IF FindMember(s.members, ge.node_id) >= 0
    THEN GossipUpdate(s, ge, FindMember(s.members, ge.node_id),
                      (ge.hops_away + 1) % U8, via_node, t)
    ELSE GossipName(upsertMember(s, ge.node_id, ge.seq, (ge.hops_away + 1) % U8, via_node, t),
                    ge)

RECURSIVE processGossipFrom(_, _, _, _, _)
processGossipFrom(s, entries, k, via_node, t) ==
    IF k > Len(entries) THEN s
    ELSE processGossipFrom(processGossipEntry(s, entries[k], via_node, t),
                           entries, k + 1, via_node, t)

processGossipEntries(s, entries, via_node, t) == processGossipFrom(s, entries, 1, via_node, t)

(***************************************************************************)
(* Heartbeat.                                                              *)
(***************************************************************************)
HeartbeatFrame(from, seq, seed, name, ttl, hops, gossip) ==
    [NoFrame EXCEPT !.t = "H", !.from = from, !.id = seq, !.seed = seed, !.name = name,
                    !.ttl = ttl, !.hops = hops, !.gossip = gossip]

(* sendHeartbeat, after ++heartbeat_seq_: the leader's own forced hop. *)
HeartbeatHop(s, t, rc_ok) ==
    IF s.hop_leader_id = s.node_id % U16
    THEN maybeApplyFrequencyHop([s EXCEPT !.last_hop_seq = s.heartbeat_seq], t, TRUE, rc_ok)
    ELSE s

HeartbeatSeen(s, t) == markLocalMessageSeen(s, "H", s.node_id % U16, s.heartbeat_seq % U16, t)

HeartbeatEnqueue(s, t) ==
    enqueueFrame(s, HeartbeatFrame(s.node_id, s.heartbeat_seq, s.hop_seed, s.node_name,
                                   kDefaultTtl, 0, GossipWire(s, t)))

sendHeartbeat(s, t, rc_ok) ==
    HeartbeatEnqueue(
        HeartbeatSeen(
            HeartbeatHop([s EXCEPT !.heartbeat_seq = Add32(s.heartbeat_seq, 1)], t, rc_ok), t), t)

(* handleHeartbeat: the name and hop seed written to the sender's entry. *)
HeartbeatEntry(s, from, hop_seed, name) ==
    IF FindMember(s.members, from) < 0 THEN s
    ELSE [s EXCEPT !.members[FindMember(s.members, from)] =
             [@ EXCEPT !.name = IF name # "" THEN Trunc(name, 23) ELSE @,
                       !.hop_seed = IF hop_seed # 0 THEN hop_seed ELSE @]]

HeartbeatDirect(s, from, seq, hop_seed, name, hops, t) ==
    HeartbeatEntry(upsertMember(s, from, seq, IF hops = 0 THEN 1 ELSE (hops + 1) % U8, from, t),
                   from, hop_seed, name)

(* The entries the "G ..." text parses to: a token with an empty field is  *)
(* skipped, and at most kMaxGossipEntries are kept.                        *)
GossipNamed(e) == e.name # ""

GossipParse(gossip) ==
    SubSeq(SelectSeq(gossip, GossipNamed), 1,
           Min(Len(SelectSeq(gossip, GossipNamed)), kMaxGossipEntries))

HeartbeatGossip(s, gossip, from, t) ==
    IF Len(GossipParse(gossip)) > 0
    THEN processGossipEntries(s, GossipParse(gossip), from, t)
    ELSE s

(* The relayed copy keeps the received ttl. *)
HeartbeatRelay_KeepTtl(s, from, seq, hop_seed, name, ttl, hops, t) ==
    IF ttl > 0
    THEN enqueueFrame(s, HeartbeatFrame(from, seq, hop_seed,
                                        IF name # "" THEN name ELSE "unknown",
                                        ttl, hops + 1, GossipWire(s, t)))
    ELSE s

HeartbeatRelay(s, from, seq, hop_seed, name, ttl, hops, t) ==
    IF ttl > 0
    THEN enqueueFrame(s, HeartbeatFrame(from, seq, hop_seed,
                                        IF name # "" THEN name ELSE "unknown",
                                        ttl - 1, hops + 1, GossipWire(s, t)))
    ELSE s

handleHeartbeat(s, from, seq, hop_seed, name, ttl, hops, gossip, t, rc_ok) ==
    IF from = s.node_id THEN s
    ELSE IF SeenHit(s, "H", from, seq % U16, t)
    THEN hasSeenAndRemember(s, "H", from, seq % U16, t)
    ELSE HeartbeatRelay(
            maybeApplyFrequencyHop(
                HeartbeatGossip(
                    HeartbeatDirect(hasSeenAndRemember(s, "H", from, seq % U16, t),
                                    from, seq, hop_seed, name, hops, t),
                    gossip, from, t),
                t, TRUE, rc_ok),
            from, seq, hop_seed, name, ttl, hops, t)

(***************************************************************************)
(* Message bodies are sequences of characters.                             *)
(***************************************************************************)
(* strstr: the first position where pat occurs in str, 0 if none. *)
FindSub(str, pat) ==
    IF {i \in 1..(Len(str) - Len(pat) + 1) : SubSeq(str, i, i + Len(pat) - 1) = pat} = {}
    THEN 0
    ELSE SetMin({i \in 1..(Len(str) - Len(pat) + 1) : SubSeq(str, i, i + Len(pat) - 1) = pat})

DigitVal(c) ==
    CASE c = "0" -> 0 [] c = "1" -> 1 [] c = "2" -> 2 [] c = "3" -> 3 [] c = "4" -> 4
      [] c = "5" -> 5 [] c = "6" -> 6 [] c = "7" -> 7 [] c = "8" -> 8 [] c = "9" -> 9
      [] OTHER -> -1

(* strtoul(.., 10) on the digits that start at position i. *)
RECURSIVE ParseDec(_, _, _)
ParseDec(str, i, acc) ==
    IF i > Len(str) \/ DigitVal(str[i]) < 0 THEN acc
    ELSE ParseDec(str, i + 1, acc * 10 + DigitVal(str[i]))

TxtChat == <<"C", "H", "A", "T">>
TxtInfo == <<"I", "N", "F", "O">>

TriageIntent(body, first_sep) ==
    IF first_sep > 0 THEN SubSeq(body, 1, Min(first_sep - 1, 11)) ELSE TxtInfo

TriageUrgency(urgency) == IF urgency > 3 THEN 3 ELSE urgency

decodeTriageFromPayload(body) ==
    IF FindSub(body, <<"|", "U">>) = 0
    THEN [is_vital |-> FALSE, wire_payload |-> body, intent |-> TxtChat, urgency |-> 0]
    ELSE [is_vital |-> TRUE, wire_payload |-> body,
          intent |-> TriageIntent(body, FindSub(body, <<"|">>)),
          urgency |-> TriageUrgency(ParseDec(body, FindSub(body, <<"|", "U">>) + 2, 0) % U8)]

(***************************************************************************)
(* DATA and ACK.                                                           *)
(***************************************************************************)
DataFrame(from, origin, dst, msg_id, ttl, hops, body) ==
    [NoFrame EXCEPT !.t = "D", !.from = from, !.origin = origin, !.dst = dst,
                    !.id = msg_id, !.ttl = ttl, !.hops = hops, !.body = body]

AckFrame(from, origin, dst, msg_id, ttl, hops) ==
    [NoFrame EXCEPT !.t = "A", !.from = from, !.origin = origin, !.dst = dst,
                    !.id = msg_id, !.ttl = ttl, !.hops = hops]

(* relayPacket without its test of ttl. *)
relayPacket_NoTtlTest(s, type, origin, dst, msg_id, ttl, hops, body) ==
    IF type = "D"
    THEN enqueueFrame(s, DataFrame(s.node_id, origin, dst, msg_id,
                                   (ttl - 1) % U8, (hops + 1) % U8, body))
    ELSE enqueueFrame(s, AckFrame(s.node_id, origin, dst, msg_id,
                                  (ttl - 1) % U8, (hops + 1) % U8))

relayPacket(s, type, origin, dst, msg_id, ttl, hops, body) ==
    IF ttl = 0 THEN s
    ELSE IF type = "D"
    THEN enqueueFrame(s, DataFrame(s.node_id, origin, dst, msg_id,
                                   (ttl - 1) % U8, (hops + 1) % U8, body))
    ELSE enqueueFrame(s, AckFrame(s.node_id, origin, dst, msg_id,
                                  (ttl - 1) % U8, (hops + 1) % U8))

(* The two upsertMember calls that open handleData and handleAck. *)
LearnOrigin(s, origin, t) ==
    IF origin # s.node_id THEN upsertMember(s, origin, 0, 1, 0, t) ELSE s

LearnSender(s, from, origin, t) == LearnOrigin(upsertMember(s, from, 0, 1, from, t), origin, t)

(* handleData for dst == node_id_. *)
DataStore(s, origin, msg_id, body, triage_meta) ==
    appendHistory([s EXCEPT !.last_rx_triage = triage_meta, !.last_rx_body = Trunc(body, 51)],
                  "R", origin, msg_id, body, triage_meta)

DataAck(s, origin, msg_id, t) ==
    enqueueFrame(markLocalMessageSeen(s, "A", s.node_id % U16, msg_id, t),
                 AckFrame(s.node_id, s.node_id % U16, origin, msg_id, kDefaultTtl, 0))

(* handleData for dst == node_id_ without the "// ACK" block. *)
DataDeliver_NoAck(s, origin, msg_id, body, t) ==
    DataStore(s, origin, msg_id, body, decodeTriageFromPayload(body))

DataDeliver(s, origin, msg_id, body, t) ==
    DataAck(DataStore(s, origin, msg_id, body, decodeTriageFromPayload(body)), origin, msg_id, t)

(* handleData after hasSeenAndRemember has answered seen. *)
DataFresh(s, seen, origin, dst, msg_id, ttl, hops, body, t) ==
    IF seen THEN s
    ELSE IF dst = s.node_id THEN DataDeliver(s, origin, msg_id, body, t)
    ELSE relayPacket(s, "D", origin, dst, msg_id, ttl, hops, body)

DataSeen(s, origin, dst, msg_id, ttl, hops, body, t) ==
    DataFresh(hasSeenAndRemember(s, "D", origin, msg_id, t), SeenHit(s, "D", origin, msg_id, t),
              origin, dst, msg_id, ttl, hops, body, t)

handleData(s, from, origin, dst, msg_id, ttl, hops, body, t) ==
    DataSeen(LearnSender(s, from, origin, t), origin, dst, msg_id, ttl, hops, body, t)

AckFresh(s, seen, origin, dst, msg_id, ttl, hops) ==
    IF seen THEN s
    ELSE IF dst = s.node_id THEN ackPendingData(s, msg_id, origin)
    ELSE relayPacket(s, "A", origin, dst, msg_id, ttl, hops, <<>>)

AckSeen(s, origin, dst, msg_id, ttl, hops, t) ==
    AckFresh(hasSeenAndRemember(s, "A", origin, msg_id, t), SeenHit(s, "A", origin, msg_id, t),
             origin, dst, msg_id, ttl, hops)

handleAck(s, from, origin, dst, msg_id, ttl, hops, t) ==
    AckSeen(LearnSender(s, from, origin, t), origin, dst, msg_id, ttl, hops, t)

(***************************************************************************)
(* A frame as the text the radio hands over: a sequence of characters.     *)
(* strtok_r skips the delimiters before a token, so that an empty field    *)
(* is no field; strtoul reads the digits a text begins with and gives 0    *)
(* when there is none.  (The texts of the runs hold no white space, sign   *)
(* or 0x prefix, which strtoul would skip.)                                *)
(***************************************************************************)
TextFrame(text) == [NoFrame EXCEPT !.t = "text", !.body = text]

RECURSIVE SkipDelims(_, _, _)
SkipDelims(text, delim, pos) ==
    IF pos <= Len(text) /\ text[pos] = delim THEN SkipDelims(text, delim, pos + 1) ELSE pos

RECURSIVE TokenEnd(_, _, _)
TokenEnd(text, delim, pos) ==
    IF pos <= Len(text) /\ text[pos] # delim THEN TokenEnd(text, delim, pos + 1) ELSE pos

(* The tokens strtok_r returns in up to k calls, from position save. *)
RECURSIVE Tokens(_, _, _, _)
Tokens(text, delim, save, k) ==
    IF k = 0 \/ SkipDelims(text, delim, save) > Len(text) THEN <<>>
    ELSE <<SubSeq(text, SkipDelims(text, delim, save),
                  TokenEnd(text, delim, SkipDelims(text, delim, save)) - 1)>>
         \o Tokens(text, delim, TokenEnd(text, delim, SkipDelims(text, delim, save)) + 1, k - 1)

(* Where strtok_r's save pointer stands after k calls. *)
RECURSIVE SaveAfter(_, _, _, _)
SaveAfter(text, delim, save, k) ==
    IF k = 0 \/ SkipDelims(text, delim, save) > Len(text) THEN Min(save, Len(text) + 1)
    ELSE SaveAfter(text, delim, TokenEnd(text, delim, SkipDelims(text, delim, save)) + 1, k - 1)

(* strtok_r(nullptr, "", &save): what is left of the text, if anything. *)
RestAfter(text, delim, k) ==
    IF Len(Tokens(text, delim, 1, k)) < k THEN <<>>
    ELSE SubSeq(text, SaveAfter(text, delim, 1, k), Len(text))

DigitOf(c, base) ==
    CASE c = "0" -> 0 [] c = "1" -> 1 [] c = "2" -> 2 [] c = "3" -> 3 [] c = "4" -> 4
      [] c = "5" -> 5 [] c = "6" -> 6 [] c = "7" -> 7 [] c = "8" -> 8 [] c = "9" -> 9
      [] base = 16 /\ c \in {"a", "A"} -> 10 [] base = 16 /\ c \in {"b", "B"} -> 11
      [] base = 16 /\ c \in {"c", "C"} -> 12 [] base = 16 /\ c \in {"d", "D"} -> 13
      [] base = 16 /\ c \in {"e", "E"} -> 14 [] base = 16 /\ c \in {"f", "F"} -> 15
      [] OTHER -> -1

(* unsigned long has 32 bits: the value is held in two halves, and a value *)
(* too large gives ULONG_MAX.                                              *)
RECURSIVE StrtoulFrom(_, _, _, _, _)
StrtoulFrom(tok, i, base, hi, lo) ==
    IF i > Len(tok) \/ DigitOf(tok[i], base) < 0 THEN W32(hi, lo)
    ELSE IF hi * base + (lo * base + DigitOf(tok[i], base)) \div U16 >= U16
    THEN W32(U16 - 1, U16 - 1)
    ELSE StrtoulFrom(tok, i + 1, base,
                     hi * base + (lo * base + DigitOf(tok[i], base)) \div U16,
                     (lo * base + DigitOf(tok[i], base)) % U16)

strtoul(tok, base) == StrtoulFrom(tok, 1, base, 0, 0)

NameText(id) == <<"N", "o", "d", "e", "-", "0", "0", "0">> \o <<ToString(id)>>

(* The name a text stands for: names are compared, never taken apart. *)
NameOfText(tok) ==
    IF tok = <<>> THEN ""
    ELSE IF \E id \in 1..4 : tok = NameText(id)
    THEN NodeNameOf(CHOOSE id \in 1..4 : tok = NameText(id))
    ELSE "other"

GossipOfToken(f) ==
    IF Len(f) < 4 THEN [node_id |-> 0, name |-> "", seq |-> 0, hops_away |-> 0]
    ELSE [node_id |-> Lo16(strtoul(f[1], 16)), name |-> NameOfText(f[2]),
          seq |-> strtoul(f[3], 10), hops_away |-> Lo16(strtoul(f[4], 10)) % U8]

(* The entries of "G id:name:seq:hops;...": GossipParse leaves out those   *)
(* that lack a field.                                                      *)
GossipOfText(rest) ==
    IF Len(rest) >= 2 /\ rest[1] = "G" /\ rest[2] = " "
    THEN [i \in 1..Len(Tokens(SubSeq(rest, 3, Len(rest)), ";", 1, kMaxGossipEntries)) |->
             GossipOfToken(Tokens(Tokens(SubSeq(rest, 3, Len(rest)), ";", 1, kMaxGossipEntries)[i],
                                  ":", 1, 4))]
    ELSE <<>>

HeartbeatOfFields(f, rest) ==
    IF Len(f) < 3 THEN NoFrame
    ELSE HeartbeatFrame(Lo16(strtoul(f[2], 16)), strtoul(f[3], 10),
                        IF Len(f) >= 4 THEN strtoul(f[4], 16) ELSE 0,
                        IF Len(f) >= 5 THEN NameOfText(f[5]) ELSE "",
                        IF Len(f) >= 6 THEN Lo16(strtoul(f[6], 10)) % U8 ELSE 0,
                        IF Len(f) >= 7 THEN Lo16(strtoul(f[7], 10)) % U8 ELSE 0,
                        GossipOfText(rest))

DataOrAckOfFields(f, rest) ==
    IF Len(f) < 7 \/ f[1][1] \notin {"D", "A"} THEN NoFrame
    ELSE [NoFrame EXCEPT !.t = f[1][1],
                         !.from = Lo16(strtoul(f[2], 16)), !.origin = Lo16(strtoul(f[3], 16)),
                         !.dst = Lo16(strtoul(f[4], 16)), !.id = Lo16(strtoul(f[5], 10)),
                         !.ttl = Lo16(strtoul(f[6], 10)) % U8,
                         !.hops = Lo16(strtoul(f[7], 10)) % U8,
                         !.body = IF f[1][1] = "D" THEN rest ELSE <<>>]

(* The fields the handlers are called with; NoFrame where the function     *)
(* returns without calling one.                                            *)
FieldsOfText(text) ==
    IF Len(Tokens(text, "|", 1, 1)) = 0 THEN NoFrame
    ELSE IF Tokens(text, "|", 1, 1)[1][1] = "H"
    THEN HeartbeatOfFields(Tokens(text, "|", 1, 7), RestAfter(text, "|", 7))
    ELSE DataOrAckOfFields(Tokens(text, "|", 1, 7), RestAfter(text, "|", 7))

FieldsOf(w) == IF w.t = "text" THEN FieldsOfText(w.body) ELSE w

(* The handler a frame's fields are given to, the numeric fields cast to   *)
(* the width of the handler's parameter.                                   *)
HandleFields(s, w, t, rc_ok) ==
    IF w.t = "H"
    THEN handleHeartbeat(s, w.from % U16, ToU32(w.id), ToU32(w.seed), w.name,
                         w.ttl % U8, w.hops % U8, w.gossip, t, rc_ok)
    ELSE IF w.t = "D"
    THEN handleData(s, w.from % U16, w.origin % U16, w.dst % U16, w.id % U16,
                    w.ttl % U8, w.hops % U8, w.body, t)
    ELSE IF w.t = "A"
    THEN handleAck(s, w.from % U16, w.origin % U16, w.dst % U16, w.id % U16,
                   w.ttl % U8, w.hops % U8, t)
    ELSE s

parseAndHandlePacket(s, w, t, rc_ok) == HandleFields(s, FieldsOf(w), t, rc_ok)

(***************************************************************************)
(* Origination.  `triage` is the TriageOutput runTriage gives for the text.*)
(***************************************************************************)
(* The bookkeeping after a successful enqueue of an originated DATA. *)
DataSent(s, dst, msg_id, body_text, triage, t) ==
    appendHistory(addPendingData(s, msg_id, dst, t), "S", dst, msg_id, body_text, triage)

(* From snprintf of the frame on: enqueue, and on success the bookkeeping. *)
DataEnqueue(s, dst, msg_id, body_text, triage, t) ==
    IF ~EnqueueOk(s) THEN s
    ELSE DataSent(enqueueFrame(s, DataFrame(s.node_id, s.node_id, dst, msg_id,
                                            kDefaultTtl, 0, body_text)),
                  dst, msg_id, body_text, triage, t)

(* ++local_msg_seq_, markLocalMessageSeen and the rest with the new id. *)
DataOriginate(s, dst, triage, t) ==
    DataEnqueue(markLocalMessageSeen(s, "D", s.node_id % U16, s.local_msg_seq, t),
                dst, s.local_msg_seq, Trunc(triage.wire_payload, 48), triage, t)

(* queueBleMessage with local_msg_seq_ in place of ++local_msg_seq_. *)
queueBleMessage_SameId(s, dst, text, triage, t) ==
    IF Len(text) = 0 THEN s
    ELSE DataOriginate(s, dst, triage, t)

queueBleMessage(s, dst, text, triage, t) ==
    IF Len(text) = 0 THEN s
    ELSE DataOriginate([s EXCEPT !.local_msg_seq = (s.local_msg_seq + 1) % U16], dst, triage, t)

(* The value queueBleMessage returns: the text is not empty and the frame  *)
(* was enqueued (the enqueue happens with the queue as it is at the call). *)
queueBleMessageResult(s, text) == Len(text) > 0 /\ EnqueueOk(s)

(* peer_pick and triage stand for the two random() draws. *)
TestDataTo(s, peers, peer_pick, triage, t) ==
    IF Len(peers) = 0 THEN s
    ELSE DataOriginate([s EXCEPT !.local_msg_seq = (s.local_msg_seq + 1) % U16],
                       peers[(peer_pick % Len(peers)) + 1], triage, t)

sendTestDataIfPossible(s, peer_pick, triage, t) ==
    TestDataTo(s, collectActivePeers(s, t), peer_pick, triage, t)

(***************************************************************************)
(* begin(), the schedulers and the radio state machine.                    *)
(***************************************************************************)
begin(s, t) ==
    [s EXCEPT !.hop_seed = HopSeedOf(s.node_id),
              !.hop_leader_id = s.node_id % U16,
              !.node_name = NodeNameOf(s.node_id),
              !.next_heartbeat_at_ms = Add32(t, 1000 + (s.node_id % 700)),
              !.next_hop_at_ms = Add32(t, kHopIntervalMs),
              !.next_test_data_at_ms = Add32(t, 4000 + (s.node_id % 3000)),
              !.next_membership_print_at_ms = Add32(t, 6000),
              !.state = "Rx"]

(* The three timed sections of runSchedulers; hb_jitter and td_jitter are  *)
(* the random() draws.                                                     *)
HeartbeatDue(s, t, rc_ok, hb_jitter) ==
    IF Ge32(t, s.next_heartbeat_at_ms)
    THEN [sendHeartbeat(s, t, rc_ok) EXCEPT
             !.next_heartbeat_at_ms = Add32(t, kHeartbeatIntervalMs + hb_jitter)]
    ELSE s

TestDataDue(s, t, td_jitter, peer_pick, triage) ==
    IF Ge32(t, s.next_test_data_at_ms)
    THEN [sendTestDataIfPossible(s, peer_pick, triage, t) EXCEPT
             !.next_test_data_at_ms = Add32(t, kTestDataIntervalMs + td_jitter)]
    ELSE s

PrintDue(s, t) ==
    IF Ge32(t, s.next_membership_print_at_ms)
    THEN [s EXCEPT !.next_membership_print_at_ms = Add32(t, 10000)]
    ELSE s

(* in.rc_ok is the radio's answer to setFrequency; in.hb_jitter,           *)
(* in.td_jitter, in.peer_pick and in.triage are the random() draws.        *)
runSchedulers(s, t, in) ==
    PrintDue(
        TestDataDue(
            HeartbeatDue(maybeApplyFrequencyHop(expirePendingData(s, t), t, FALSE, in.rc_ok),
                         t, in.rc_ok, in.hb_jitter),
            t, in.td_jitter, in.peer_pick, in.triage),
        t)

NextQuiet(s) == [s EXCEPT !.state = IF s.tx_q_size > 0 THEN "Tx" ELSE "Rx"]

runStateIdle(s, t, in) == NextQuiet(runSchedulers(s, t, in))

(* runStateTx after a frame was dequeued.  start_ok: startTransmit was     *)
(* accepted; done: the done flag rose before the 3 s deadline.             *)
TxStart(s, start_ok, done) ==
    IF ~start_ok
    THEN [s EXCEPT !.tx_count = Add32(@, 1), !.operation_done = FALSE,
                   !.error_count = Add32(@, 1), !.state = "Idle"]
    ELSE [s EXCEPT !.tx_count = Add32(@, 1), !.operation_done = done,
                   !.state = IF done THEN "TxDone" ELSE "TxTimeout"]

runStateTx(s, in) ==
    IF s.tx_q_size = 0 THEN [s EXCEPT !.state = "Rx"]
    ELSE TxStart(dequeueFrame(s), in.start_ok, in.done)

(* runStateRx once the done flag rose.  read: "ok", "crc" or "err", the    *)
(* result of readData; frame: the packet read.                             *)
RxRead(s, t, in) ==
    IF in.read = "ok"
    THEN [parseAndHandlePacket([s EXCEPT !.operation_done = TRUE, !.rx_packet = in.frame,
                                         !.rx_count = Add32(@, 1)],
                               in.frame, t, in.rc_ok)
            EXCEPT !.state = "RxDone"]
    ELSE [s EXCEPT !.operation_done = TRUE, !.rx_packet = in.frame, !.state = "RxError"]

runStateRx(s, t, in) ==
    IF ~in.start_ok
    THEN [s EXCEPT !.operation_done = FALSE, !.error_count = Add32(@, 1), !.state = "Idle"]
    ELSE IF ~in.done THEN [s EXCEPT !.operation_done = FALSE, !.state = "RxTimeout"]
    ELSE RxRead(s, t, in)

(* To Rx though a frame is queued. *)
runStateTxDone_ToRx(s) == [s EXCEPT !.state = "Rx"]

runStateTxDone(s) == NextQuiet(s)

runStateRxDone(s, t, in) == NextQuiet(runSchedulers(s, t, in))

(* The error is not counted. *)
runStateTxTimeout_NoCount(s) == [s EXCEPT !.state = "Rx"]

runStateTxTimeout(s) == [s EXCEPT !.error_count = Add32(@, 1), !.state = "Rx"]

(* The schedulers are not run. *)
runStateRxTimeout_NoSchedulers(s, t, in) == NextQuiet(s)

runStateRxTimeout(s, t, in) == NextQuiet(runSchedulers(s, t, in))

runStateRxError(s) == [s EXCEPT !.error_count = Add32(@, 1), !.state = "Rx"]

(***************************************************************************)
(* The environment: the radio's answers, the random() draws, the frames on *)
(* the air and the passing of time.  A node is ticked by loop(), one       *)
(* action per arm of the switch in tick().                                 *)
(***************************************************************************)
Self == 2

MaxRx == 2
MaxFaults == 1
MaxSends == 1
MaxTime == 16000

TxtHi == <<"h", "i">>
TxtWater == <<"W", "A", "T", "E", "R">>
PayloadWater == TxtWater \o <<"|", "U", "2", "|", "F", "0", "|", "N", "0", "|", "L", "c", "a", "m", "p">>

(* What runTriage returns for a chat text and for a vital text. *)
TriageChat == [is_vital |-> FALSE, wire_payload |-> TxtHi, intent |-> TxtChat, urgency |-> 0]
TriageWater == [is_vital |-> TRUE, wire_payload |-> PayloadWater, intent |-> TxtWater, urgency |-> 2]

(* The values drawn from random(kHeartbeatJitterMs). *)
Jitters == {0}

(* rx, faults, sends: the frames, failures and texts fed so far.  fill:    *)
(* the frames of the background stream fed so far.  probe, first_at,       *)
(* replays: the watched frame, when it was first fed and how many times it *)
(* was fed again.  inbox: per node, the frames on the air for it.  swaps:  *)
(* the transmissions that went ahead of a lower node's.                    *)
Env0 ==
    [rx |-> 0, faults |-> 0, sends |-> 0, ble_result |-> TRUE,
     fill |-> 0, probe |-> 0, first_at |-> 0, replays |-> 0, inbox |-> <<>>, swaps |-> 0,
     hist_idx |-> -1, hist_ok |-> FALSE, hist_out |-> HistoryEntry0, log |-> <<>>,
     text |-> "", x |-> <<>>, built |-> FALSE]

(* The inputs of a tick in which the radio works and nothing is received. *)
Quiet ==
    [start_ok |-> TRUE, done |-> TRUE, read |-> "ok", frame |-> NoFrame, rc_ok |-> TRUE,
     hb_jitter |-> 0, td_jitter |-> 0, peer_pick |-> 0, triage |-> TriageChat]

Running(n, st) == n \in DOMAIN node /\ node[n].state = st

Fault ==
    /\ env.faults < MaxFaults
    /\ env' = [env EXCEPT !.faults = env.faults + 1]

TickIdle(n) ==
    /\ Running(n, "Idle")
    /\ \E j \in Jitters :
          node' = [node EXCEPT ![n] = runStateIdle(@, now, [Quiet EXCEPT !.hb_jitter = j])]
    /\ UNCHANGED <<now, adj, env>>

TickTx(n) ==
    /\ Running(n, "Tx")
    /\ node' = [node EXCEPT ![n] = runStateTx(@, Quiet)]
    /\ UNCHANGED <<now, adj, env>>

TickTxFault(n) ==
    /\ Running(n, "Tx")
    /\ Fault
    /\ \E in \in {[Quiet EXCEPT !.start_ok = FALSE], [Quiet EXCEPT !.done = FALSE]} :
          node' = [node EXCEPT ![n] = runStateTx(@, in)]
    /\ UNCHANGED <<now, adj>>

TickRxFrame(n, f) ==
    /\ Running(n, "Rx")
    /\ env.rx < MaxRx
    /\ env' = [env EXCEPT !.rx = env.rx + 1]
    /\ node' = [node EXCEPT ![n] = runStateRx(@, now, [Quiet EXCEPT !.frame = f])]
    /\ UNCHANGED <<now, adj>>

TickRxNothing(n) ==
    /\ Running(n, "Rx")
    /\ node' = [node EXCEPT ![n] = runStateRx(@, now, [Quiet EXCEPT !.done = FALSE])]
    /\ UNCHANGED <<now, adj, env>>

TickRxFault(n, f) ==
    /\ Running(n, "Rx")
    /\ Fault
    /\ \E in \in {[Quiet EXCEPT !.start_ok = FALSE],
                  [Quiet EXCEPT !.read = "crc", !.frame = f],
                  [Quiet EXCEPT !.read = "err", !.frame = f]} :
          node' = [node EXCEPT ![n] = runStateRx(@, now, in)]
    /\ UNCHANGED <<now, adj>>

TickTxDone(n) ==
    /\ Running(n, "TxDone")
    /\ node' = [node EXCEPT ![n] = runStateTxDone(@)]
    /\ UNCHANGED <<now, adj, env>>

TickRxDone(n) ==
    /\ Running(n, "RxDone")
    /\ \E j \in Jitters :
          node' = [node EXCEPT ![n] = runStateRxDone(@, now, [Quiet EXCEPT !.hb_jitter = j])]
    /\ UNCHANGED <<now, adj, env>>

TickTxTimeout(n) ==
    /\ Running(n, "TxTimeout")
    /\ node' = [node EXCEPT ![n] = runStateTxTimeout(@)]
    /\ UNCHANGED <<now, adj, env>>

TickRxTimeout(n) ==
    /\ Running(n, "RxTimeout")
    /\ \E j \in Jitters :
          node' = [node EXCEPT ![n] = runStateRxTimeout(@, now, [Quiet EXCEPT !.hb_jitter = j])]
    /\ UNCHANGED <<now, adj, env>>

TickRxError(n) ==
    /\ Running(n, "RxError")
    /\ node' = [node EXCEPT ![n] = runStateRxError(@)]
    /\ UNCHANGED <<now, adj, env>>

(* A text arrives over BLE for dst. *)
BleSend(n, dst, text, triage) ==
    /\ n \in DOMAIN node
    /\ env.sends < MaxSends
    /\ env' = [env EXCEPT !.sends = env.sends + 1,
                          !.ble_result = queueBleMessageResult(node[n], text)]
    /\ node' = [node EXCEPT ![n] = queueBleMessage(@, dst, text, triage, now)]
    /\ UNCHANGED <<now, adj>>

Advance(dt) ==
    /\ now + dt <= MaxTime
    /\ now' = now + dt
    /\ UNCHANGED <<node, adj, env>>

(* The ticks of a radio that never fails, but the reception of a frame. *)
TickClean(n) ==
    \/ TickTx(n) \/ TickRxNothing(n)
    \/ TickTxDone(n) \/ TickRxDone(n) \/ TickRxTimeout(n)

(* The ticks where the radio reports a failure, and the recovery from it. *)
TickFaulty(n) ==
    \/ TickTxFault(n) \/ TickRxFault(n, NoFrame)
    \/ TickIdle(n) \/ TickTxTimeout(n) \/ TickRxError(n)

(***************************************************************************)
(* SpecMember: one node hearing frames that speak about three node ids.    *)
(***************************************************************************)
GossipOf(id, seq, hops) == [node_id |-> id, name |-> NodeNameOf(id), seq |-> seq, hops_away |-> hops]

MemberFrames ==
    {HeartbeatFrame(1, 1, HopSeedOf(1), NodeNameOf(1), 0, 0, g) :
        g \in {<<>>, <<GossipOf(Self, 1, 0)>>, <<GossipOf(1, 2, 255)>>, <<GossipOf(3, 1, 0)>>}}
    \cup {HeartbeatFrame(1, 2, HopSeedOf(1), NodeNameOf(1), 0, 255, g) :
        g \in {<<>>, <<GossipOf(3, 2, 255)>>}}
    \cup {HeartbeatFrame(Self, 1, HopSeedOf(Self), NodeNameOf(Self), 0, 0, <<GossipOf(3, 1, 1)>>)}
    \cup {DataFrame(from, origin, 3, 1, 0, 0, TxtHi) : from \in {1, Self}, origin \in {1, 3}}
    \cup {AckFrame(from, 3, 1, 1, 0, 0) : from \in {1, Self}}
    \cup {DataFrame(1, Self, 3, 1, 0, 0, TxtHi), AckFrame(1, Self, 3, 1, 0, 0)}

(* setup() has called begin() on every node at time 0. *)
InitNode ==
    /\ node = [n \in {Self} |-> begin(NodeObject(n), 0)]
    /\ now = 0
    /\ adj = {}
    /\ env = Env0

NextMember ==
    \/ \E f \in MemberFrames : TickRxFrame(Self, f)
    \/ TickClean(Self)
    \/ \E dt \in {MaxTime} : Advance(dt)

SpecMember == InitNode /\ [][NextMember]_vars
(***************************************************************************)
(* What a step did to a node.                                              *)
(***************************************************************************)
(* The step read a packet: runStateRx counted it and left it in rx_packet_.*)
Received(n) == node[n].state = "Rx" /\ node'[n].rx_count # node[n].rx_count

UsedMembers(s) == {i \in MemberSlots : s.members[i].used}

(* C3: for every received frame whose from field is the node's own id, and *)
(* for every gossip entry whose node id is the node's own id, the neighbor *)
(* table after processing equals the table before.                         *)
C3_NoSelfLearn ==
    /\ [][\A n \in DOMAIN node :
            (Received(n) /\ node'[n].rx_packet.from % U16 = node[n].node_id)
                => node'[n].members = node[n].members]_vars
    /\ [](\A n \in DOMAIN node : \A via \in {1, 3} : \A seq \in {0, 1, 2} : \A h \in {0, 1, 255} :
            processGossipEntry(node[n], GossipOf(node[n].node_id, seq, h), via, now).members
                = node[n].members)

(* C4: the neighbor table holds at most one used entry per node_id and no  *)
(* used entry for the node's own id.                                       *)
C4_OneEntryPerId ==
    \A n \in DOMAIN node :
        /\ \A i, j \in UsedMembers(node[n]) :
               node[n].members[i].node_id = node[n].members[j].node_id => i = j
        /\ \A i \in UsedMembers(node[n]) : node[n].members[i].node_id # node[n].node_id

(* Two frames were read, the last one names the node itself as sender and  *)
(* a node that already had an entry as origin, and two entries are used.   *)
C4_Witness ==
    /\ node[Self].rx_count = 2
    /\ node[Self].rx_packet.from = Self
    /\ node[Self].rx_packet.t = "D"
    /\ Cardinality(UsedMembers(node[Self])) = 2
    /\ FindMember(node[Self].members, node[Self].rx_packet.origin) >= 0

(* C5: every used neighbor entry has hops_away >= 1, whatever hops values  *)
(* (0..255) the received heartbeats and gossip entries carry.              *)
C5_HopsAtLeastOne ==
    \A n \in DOMAIN node : \A i \in UsedMembers(node[n]) : node[n].members[i].hops_away >= 1

(***************************************************************************)
(* SpecRelay: one node hearing frames addressed to others, with the ttl    *)
(* and hops values at the ends of their ranges.                            *)
(***************************************************************************)
TtlHops == {<<0, 0>>, <<1, 255>>, <<2, 3>>, <<4, 0>>}

RelayFrames ==
    {DataFrame(1, 1, 3, 1, th[1], th[2], TxtHi) : th \in TtlHops}
    \cup {AckFrame(1, 3, 1, 1, th[1], th[2]) : th \in TtlHops}
    \cup {HeartbeatFrame(1, 1, HopSeedOf(1), NodeNameOf(1), th[1], th[2], <<>>) : th \in TtlHops}
    \cup {DataFrame(1, 1, Self, 2, 4, 0, PayloadWater)}

NextRelay ==
    \/ \E f \in RelayFrames : TickRxFrame(Self, f)
    \/ TickClean(Self)
    \/ \E dt \in {MaxTime} : Advance(dt)

SpecRelay == InitNode /\ [][NextRelay]_vars

(* The frame the step appended to the transmit queue. *)
Enqueued(n) == node'[n].tx_queue[node[n].tx_q_tail].payload

(* The step read a packet and enqueued a relay of it: a frame of the       *)
(* packet's own type (the answer to a DATA is an ACK).                     *)
Relayed(n) ==
    /\ Received(n)
    /\ node'[n].tx_q_size = node[n].tx_q_size + 1
    /\ Enqueued(n).t = node'[n].rx_packet.t

(* C6: a relay of a received frame with fields (ttl, hops) carries ttl - 1 *)
(* and hops + 1, has from = self for DATA and ACK, preserves origin, dst   *)
(* and msg_id, and no relay is enqueued when the received ttl is 0.        *)
C6_TtlMonotonicity ==
    [][\A n \in DOMAIN node :
          /\ Relayed(n) =>
                /\ Enqueued(n).ttl = node'[n].rx_packet.ttl - 1
                /\ Enqueued(n).hops = node'[n].rx_packet.hops + 1
                /\ Enqueued(n).id = node'[n].rx_packet.id
                /\ Enqueued(n).t \in {"D", "A"} =>
                      /\ Enqueued(n).from = node[n].node_id
                      /\ Enqueued(n).origin = node'[n].rx_packet.origin
                      /\ Enqueued(n).dst = node'[n].rx_packet.dst
          /\ (Received(n) /\ node'[n].rx_packet.ttl = 0) => ~Relayed(n)]_vars

(***************************************************************************)
(* SpecQueue: one node fed texts over BLE faster than its radio sends.     *)
(***************************************************************************)
MaxBleSends == 13

BleSendMany(n, dst, text, triage) ==
    /\ env.sends < MaxBleSends
    /\ env' = [env EXCEPT !.sends = env.sends + 1,
                          !.ble_result = queueBleMessageResult(node[n], text)]
    /\ node' = [node EXCEPT ![n] = queueBleMessage(@, dst, text, triage, now)]
    /\ UNCHANGED <<now, adj>>

NextQueue ==
    \/ BleSendMany(Self, 1, TxtHi, TriageChat)
    \/ TickTx(Self) \/ TickTxDone(Self) \/ TickRxNothing(Self) \/ TickRxTimeout(Self)
    \/ \E dt \in {MaxTime} : Advance(dt)

SpecQueue == InitNode /\ [][NextQueue]_vars

QueueFields(s) == <<s.tx_q_head, s.tx_q_tail, s.tx_q_size, s.tx_queue>>

(* C10: 0 <= tx_q_size <= 12 and tx_q_tail = (tx_q_head + tx_q_size) mod   *)
(* 12 in every reachable state; an enqueue attempted at size 12 returns    *)
(* false and leaves head, tail, size and the queued frames unchanged.      *)
C10_TxQueueBound ==
    /\ [](\A n \in DOMAIN node :
             /\ 0 <= node[n].tx_q_size /\ node[n].tx_q_size <= kMaxTxQueue
             /\ node[n].tx_q_tail = (node[n].tx_q_head + node[n].tx_q_size) % kMaxTxQueue)
    /\ [][\A n \in DOMAIN node :
             (node[n].tx_q_size = kMaxTxQueue /\ node[n].state # "Tx") =>
                 /\ QueueFields(node'[n]) = QueueFields(node[n])
                 /\ env'.sends # env.sends => ~env'.ble_result]_vars

(* A text was refused at a full queue, and the heartbeat that fell due was *)
(* refused at the full queue as well.                                      *)
C10_Witness ==
    /\ node[Self].tx_q_size = kMaxTxQueue
    /\ ~env.ble_result
    /\ node[Self].heartbeat_seq > 0
    /\ node[Self].tx_q_tail # 0

(***************************************************************************)
(* SpecSeen: one node hearing a steady stream of fresh frames, one every   *)
(* SeenGap ms (less than the 1500 ms receive timeout, so the receive never *)
(* times out), and a watched frame that is fed once and then fed again.    *)
(***************************************************************************)
SeenGap == 400
MaxFirstSlot == 5

(* The k-th frame of the stream: DATA for the node, but for one heartbeat  *)
(* and one ACK to relay; every one has a key of its own.                   *)
StreamFrame(k) ==
    IF k = 3 THEN HeartbeatFrame(1, k + 1, HopSeedOf(1), NodeNameOf(1), 0, 0, <<>>)
    ELSE IF k = 7 THEN AckFrame(1, 3, 1, k, kDefaultTtl, 0)
    ELSE DataFrame(1, 1, Self, k, kDefaultTtl, 0, TxtHi)

(* The watched frames: DATA for the node, DATA, ACK and HEARTBEAT to       *)
(* relay.  again: the copy that reaches the node over another neighbour.   *)
ProbeKinds == 1..4

ProbeFrame(kind, again) ==
    IF kind = 1 THEN DataFrame(IF again THEN 3 ELSE 1, 1, Self, 900, IF again THEN 3 ELSE 4,
                               IF again THEN 1 ELSE 0, PayloadWater)
    ELSE IF kind = 2 THEN DataFrame(IF again THEN 3 ELSE 1, 1, 3, 901, IF again THEN 3 ELSE 4,
                                    IF again THEN 1 ELSE 0, TxtHi)
    ELSE IF kind = 3 THEN AckFrame(IF again THEN 1 ELSE 3, 3, 1, 902, IF again THEN 3 ELSE 4,
                                   IF again THEN 1 ELSE 0)
    ELSE HeartbeatFrame(1, 903, HopSeedOf(1), NodeNameOf(1), IF again THEN 1 ELSE 2,
                        IF again THEN 1 ELSE 0, <<>>)

(* The stream's frame of this slot has not been fed yet. *)
SlotOpen == env.fill * SeenGap = now

SeenStream(n) ==
    /\ Running(n, "Rx")
    /\ SlotOpen
    /\ env.replays = 0
    /\ env' = [env EXCEPT !.fill = env.fill + 1]
    /\ node' = [node EXCEPT ![n] = runStateRx(@, now, [Quiet EXCEPT !.frame = StreamFrame(env.fill)])]
    /\ UNCHANGED <<now, adj>>

SeenProbe(n, kind) ==
    /\ Running(n, "Rx")
    /\ SlotOpen
    /\ env.probe = 0
    /\ env.fill <= MaxFirstSlot
    /\ env' = [env EXCEPT !.probe = kind, !.first_at = now]
    /\ node' = [node EXCEPT ![n] = runStateRx(@, now, [Quiet EXCEPT !.frame = ProbeFrame(kind, FALSE)])]
    /\ UNCHANGED <<now, adj>>

SeenReplay(n) ==
    /\ Running(n, "Rx")
    /\ SlotOpen
    /\ env.probe # 0
    /\ env.replays = 0
    /\ env' = [env EXCEPT !.replays = env.replays + 1]
    /\ node' = [node EXCEPT ![n] = runStateRx(@, now, [Quiet EXCEPT !.frame = ProbeFrame(env.probe, TRUE)])]
    /\ UNCHANGED <<now, adj>>

(* The clock moves to the next slot once the node listens again. *)
SeenAdvance(n) ==
    /\ Running(n, "Rx")
    /\ ~SlotOpen
    /\ Advance(SeenGap)

NextSeen ==
    \/ SeenStream(Self)
    \/ \E kind \in ProbeKinds : SeenProbe(Self, kind)
    \/ SeenReplay(Self)
    \/ TickTx(Self) \/ TickTxDone(Self) \/ TickRxDone(Self)
    \/ SeenAdvance(Self)

SpecSeen == InitNode /\ [][NextSeen]_vars

HistoryFields(s) == <<s.history, s.history_head, s.history_count>>

(* The duplicate table has a slot that is unused or aged out at time t. *)
SeenRoom(s, t) == \E i \in SeenSlots : ~s.seen[i].used \/ SeenAged(s.seen[i], t)

(* The step fed the watched frame again, within kMembershipTimeoutMs of    *)
(* the first time.                                                         *)
Replayed(n) ==
    /\ Received(n)
    /\ env'.replays # env.replays
    /\ now - env.first_at <= kMembershipTimeoutMs

(* C2 as stated: a frame whose key was first received at most 15 s before  *)
(* enqueues nothing and appends nothing to the history, whatever was       *)
(* received in between.                                                    *)
C2_DedupCorrectness ==
    [][\A n \in DOMAIN node :
          Replayed(n) =>
              /\ QueueFields(node'[n]) = QueueFields(node[n])
              /\ HistoryFields(node'[n]) = HistoryFields(node[n])]_vars

(* C2 as the code has it: the same, while the 64-slot duplicate table has  *)
(* a slot that is unused or aged out when the later frame arrives, that    *)
(* is, while no key had to be replaced since the first frame.              *)
C2_DedupWhileRoom ==
    [][\A n \in DOMAIN node :
          (Replayed(n) /\ SeenRoom(node[n], now)) =>
              /\ QueueFields(node'[n]) = QueueFields(node[n])
              /\ HistoryFields(node'[n]) = HistoryFields(node[n])]_vars

(* The DATA for the node was fed again 4 s after the first time, with 20   *)
(* or more other keys stored, and the history holds it once.               *)
C2_Witness ==
    /\ env.probe = 1 /\ env.replays = 1
    /\ now - env.first_at = 10 * SeenGap
    /\ node[Self].rx_packet = ProbeFrame(1, TRUE)
    /\ Cardinality({i \in SeenSlots : node[Self].seen[i].used}) >= 20
    /\ Cardinality({i \in 0..(kMaxMessageHistory - 1) :
                       node[Self].history[i].direction = "R"
                       /\ node[Self].history[i].msg_id = 900}) = 1

(***************************************************************************)
(* SpecNet: three nodes in a line 1 - 2 - 3 on a lossless radio.  A frame  *)
(* a node transmits reaches each neighbour, which reads it the next time   *)
(* it listens.  The clock stands still while frames are on their way; a    *)
(* node whose receive times out runs its schedulers.                       *)
(***************************************************************************)
NetNodes == {1, 2, 3}
Line == {<<1, 2>>, <<2, 1>>, <<2, 3>>, <<3, 2>>}

NetGap == 2250
NetMaxTime == 6750
MaxSwaps == 1

(* The values drawn from random(peer_count). *)
PeerPicks == {0, 1}

InitNet ==
    /\ node = [n \in NetNodes |-> begin(NodeObject(n), 0)]
    /\ now = 0
    /\ adj = Line
    /\ env = [Env0 EXCEPT !.inbox = [n \in NetNodes |-> <<>>]]

(* The frame runStateTx is about to transmit. *)
OnAir(n) == node[n].tx_queue[node[n].tx_q_head].payload

Deliver(inbox, n, f) ==
    [m \in DOMAIN inbox |-> IF <<n, m>> \in adj THEN Append(inbox[m], f) ELSE inbox[m]]

(* A node that has a step to take that is not a transmission. *)
Busy(m) ==
    \/ node[m].state \in {"RxDone", "TxDone", "RxTimeout"}
    \/ node[m].state = "Rx" /\ env.inbox[m] # <<>>

(* Nodes take their steps in the order of their ids; transmissions wait    *)
(* until every frame on the air has been read, and go in the order of the  *)
(* ids but for MaxSwaps of them.                                           *)
NetTurn(n) == n \in DOMAIN node /\ \A m \in DOMAIN node : m < n => ~Busy(m)

NetQuiet == \A m \in DOMAIN node : node[m].state = "Rx" /\ env.inbox[m] = <<>>

(* A listening node with work for its schedulers or its transmitter. *)
Due(m) ==
    \/ Ge32(now, node[m].next_heartbeat_at_ms)
    \/ Ge32(now, node[m].next_test_data_at_ms)
    \/ node[m].tx_q_size > 0

(* n transmits while a node with a lower id is about to. *)
Overtakes(n) == \E m \in DOMAIN node : m < n /\ node[m].state = "Tx"

NetTx(n) ==
    /\ Running(n, "Tx")
    /\ \A m \in DOMAIN node : ~Busy(m)
    /\ Overtakes(n) => env.swaps < MaxSwaps
    /\ node' = [node EXCEPT ![n] = runStateTx(@, Quiet)]
    /\ env' = [env EXCEPT !.inbox = Deliver(@, n, OnAir(n)),
                          !.swaps = IF Overtakes(n) THEN @ + 1 ELSE @]
    /\ UNCHANGED <<now, adj>>

NetRx(n) ==
    /\ NetTurn(n)
    /\ Running(n, "Rx")
    /\ env.inbox[n] # <<>>
    /\ node' = [node EXCEPT ![n] = runStateRx(@, now, [Quiet EXCEPT !.frame = Head(env.inbox[n])])]
    /\ env' = [env EXCEPT !.inbox[n] = Tail(@)]
    /\ UNCHANGED <<now, adj>>

NetRxDone(n) ==
    /\ NetTurn(n)
    /\ Running(n, "RxDone")
    /\ \E pick \in PeerPicks :
          node' = [node EXCEPT ![n] = runStateRxDone(@, now, [Quiet EXCEPT !.peer_pick = pick])]
    /\ UNCHANGED <<now, adj, env>>

NetTxDone(n) ==
    /\ NetTurn(n)
    /\ TickTxDone(n)

(* The receive of the first node with work to do times out. *)
NetWake(n) ==
    /\ NetQuiet
    /\ n \in DOMAIN node
    /\ Due(n)
    /\ \A m \in DOMAIN node : m < n => ~Due(m)
    /\ TickRxNothing(n)

NetRxTimeout(n) ==
    /\ NetTurn(n)
    /\ Running(n, "RxTimeout")
    /\ \E pick \in PeerPicks :
          node' = [node EXCEPT ![n] = runStateRxTimeout(@, now, [Quiet EXCEPT !.peer_pick = pick])]
    /\ UNCHANGED <<now, adj, env>>

(* A text for node 3 arrives over BLE at node 1. *)
NetBle ==
    /\ NetQuiet
    /\ BleSend(1, 3, TxtHi, TriageChat)

NetAdvance ==
    /\ NetQuiet
    /\ \A m \in DOMAIN node : ~Due(m)
    /\ now + NetGap <= NetMaxTime
    /\ now' = now + NetGap
    /\ UNCHANGED <<node, adj, env>>

NextNet ==
    \/ \E n \in NetNodes :
          \/ NetTx(n) \/ NetRx(n) \/ NetRxDone(n) \/ NetTxDone(n)
          \/ NetWake(n) \/ NetRxTimeout(n)
    \/ NetBle
    \/ NetAdvance

SpecNet == InitNet /\ [][NextNet]_vars


(* Graph distance in the line. *)
Dist(n, m) == IF n = m THEN 0 ELSE IF <<n, m>> \in adj THEN 1 ELSE 2

Diameter == CHOOSE d \in 0..2 : \A n, m \in NetNodes : Dist(n, m) <= d /\ \E a, b \in NetNodes : Dist(a, b) = d

(* The used entries of s for node id m. *)
EntriesFor(s, m) == {i \in UsedMembers(s) : s.members[i].node_id = m}

(* C1: in the lossless network, once every frame has been delivered and    *)
(* every queue is empty, no originated DATA is still waiting for its ACK:  *)
(* every PendingData entry has been cleared by the ACK of its destination, *)
(* so that none is left to expire.                                         *)
C1_AckRoundtrip ==
    (NetQuiet /\ \A n \in DOMAIN node : node[n].tx_q_size = 0) =>
        \A n \in DOMAIN node : \A i \in PendingSlots : ~node[n].pending_data[i].used

(* C7: once every node has emitted as many heartbeats as the diameter and  *)
(* every frame has been delivered, every node holds every other node as a  *)
(* live entry whose hops_away is the graph distance.                       *)
C7_Convergence ==
    (/\ NetQuiet
     /\ \A n \in DOMAIN node : node[n].tx_q_size = 0 /\ node[n].heartbeat_seq >= Diameter) =>
        \A n, m \in DOMAIN node :
            n # m =>
                /\ EntriesFor(node[n], m) # {}
                /\ \A i \in EntriesFor(node[n], m) :
                      /\ IsLive(node[n].members[i], now)
                      /\ node[n].members[i].hops_away = Dist(n, m)

(***************************************************************************)
(* SpecElect: two nodes out of each other's range, each hearing the        *)
(* heartbeats of nodes 1, 2 and 3 at times 0, ElectGap, 2 * ElectGap, so   *)
(* that an entry heard at time 0 is stale at the end.                      *)
(***************************************************************************)
ElectNodes == {2, 3}
ElectGap == 8000
MaxHeard == 4

(* The heartbeat node id emits in the current slot. *)
ElectFrame(id) ==
    HeartbeatFrame(id, now \div ElectGap + 1, HopSeedOf(id), NodeNameOf(id), 0, 0, <<>>)

ElectIds == {1, 2, 3}

InitElect ==
    /\ node = [n \in ElectNodes |-> begin(NodeObject(n), 0)]
    /\ now = 0
    /\ adj = {}
    /\ env = Env0

ElectHear(n, f) ==
    /\ Running(n, "Rx")
    /\ env.rx < MaxHeard
    /\ env' = [env EXCEPT !.rx = env.rx + 1]
    /\ node' = [node EXCEPT ![n] = runStateRx(@, now, [Quiet EXCEPT !.frame = f])]
    /\ UNCHANGED <<now, adj>>

ElectAdvance ==
    /\ \A n \in DOMAIN node : Running(n, "Rx")
    /\ Advance(ElectGap)

NextElect ==
    \/ \E n \in ElectNodes : \E id \in ElectIds : ElectHear(n, ElectFrame(id))
    \/ \E n \in ElectNodes : TickTx(n) \/ TickTxDone(n) \/ TickRxDone(n)
    \/ ElectAdvance

SpecElect == InitElect /\ [][NextElect]_vars

(***************************************************************************)
(* Leader election and channel agreement.                                  *)
(***************************************************************************)
(* The ids a node counts as live at time t: its own and those of the used  *)
(* entries seen within kMembershipTimeoutMs.                               *)
LiveIdsOf(s, t) ==
    {s.node_id % U16} \cup
    {s.members[i].node_id :
        i \in {k \in MemberSlots :
                  /\ s.members[k].used
                  /\ Le32(Sub32(t, s.members[k].last_seen_ms), kMembershipTimeoutMs)}}

IsLowest(id, ids) == id \in ids /\ \A other \in ids : id <= other

(* The node re-evaluated its leader at the present time. *)
ElectedNow(s) == s.next_hop_at_ms = Add32(now, kHopIntervalMs)

(* C8: the leader a node computes is the lowest id among its own and its   *)
(* used, live entries, an entry last seen more than 15 s ago not counting; *)
(* a node that has just re-evaluated holds that id as hop_leader_id; and   *)
(* two nodes with the same set of live ids compute the same leader, the    *)
(* lowest id of that set.                                                  *)
C8_LeaderElection ==
    /\ \A n \in DOMAIN node :
          /\ IsLowest(selectHopLeader(node[n], now), LiveIdsOf(node[n], now))
          /\ ElectedNow(node[n]) =>
                IsLowest(node[n].hop_leader_id, LiveIdsOf(node[n], now))
    /\ \A n, m \in DOMAIN node :
          LiveIdsOf(node[n], now) = LiveIdsOf(node[m], now) =>
              /\ selectHopLeader(node[n], now) = selectHopLeader(node[m], now)
              /\ \A id \in LiveIdsOf(node[m], now) : selectHopLeader(node[n], now) <= id

(* Both nodes hold a stale entry of node 1, count {2, 3} as live and have  *)
(* just elected node 2.                                                    *)
C8_Witness ==
    /\ now = 2 * ElectGap
    /\ \A n \in ElectNodes :
          /\ n \in DOMAIN node
          /\ \E i \in MemberSlots :
                /\ node[n].members[i].used
                /\ node[n].members[i].node_id = 1
                /\ now - node[n].members[i].last_seen_ms > kMembershipTimeoutMs
          /\ LiveIdsOf(node[n], now) = {2, 3}
          /\ ElectedNow(node[n])
          /\ node[n].hop_leader_id = 2

(* What a re-evaluation at the present time leaves in node n, and whether  *)
(* it gets past the timer test.                                            *)
HopOutcome(n, force) == maybeApplyFrequencyHop(node[n], now, force, TRUE)

Reevaluates(n, force) == force \/ Ge32(now, node[n].next_hop_at_ms)

(* What a re-evaluation selected and set. *)
HopChoice(s) ==
    [leader_id |-> s.hop_leader_id, leader_seq |-> s.last_hop_seq,
     channel |-> s.current_hop_channel]

(* The choices of all the re-evaluations possible in the present state. *)
HopChoices ==
    {HopChoice(HopOutcome(e[1], e[2])) :
        e \in {x \in (DOMAIN node) \X BOOLEAN : Reevaluates(x[1], x[2])}}

SameLeaderAndSeq(a, b) == a.leader_id = b.leader_id /\ a.leader_seq = b.leader_seq

(* The seed node n takes for the leader it elects now. *)
SeedTaken(n) ==
    LeaderSeed([node[n] EXCEPT !.hop_leader_id = selectHopLeader(node[n], now)],
               LeaderEntry([node[n] EXCEPT !.hop_leader_id = selectHopLeader(node[n], now)]))

(* C9: two nodes whose re-evaluations (forced by a heartbeat or run by the *)
(* scheduler once the timer is due) select the same leader id and the same *)
(* leader sequence end on the same channel index, whatever seed each takes *)
(* for the leader.                                                         *)
C9_ChannelAgreement ==
    LET choices == HopChoices
    IN  \A a, b \in choices : SameLeaderAndSeq(a, b) => a.channel = b.channel

(* Node 1 is the leader itself and node 2 knows it from a DATA frame only  *)
(* (no seed, no sequence): they take different seeds and agree.            *)
C9_Witness ==
    /\ {1, 2} \subseteq DOMAIN node
    /\ \E i \in MemberSlots :
          /\ node[2].members[i].used
          /\ node[2].members[i].node_id = 1
          /\ node[2].members[i].hop_seed = 0
          /\ node[2].members[i].last_heartbeat_seq = 0
    /\ SameLeaderAndSeq(HopChoice(HopOutcome(1, TRUE)), HopChoice(HopOutcome(2, TRUE)))
    /\ HopOutcome(2, TRUE).hop_leader_id = 1
    /\ SeedTaken(1) # SeedTaken(2)
    /\ HopOutcome(1, TRUE).current_hop_channel = HopOutcome(2, TRUE).current_hop_channel

(***************************************************************************)
(* The order of the transmit queue.                                        *)
(***************************************************************************)
IsPrefix(a, b) == Len(a) <= Len(b) /\ SubSeq(b, 1, Len(a)) = a

(* The step was a Tx state that handed a frame to the radio. *)
HandedToRadio(n) == node[n].state = "Tx" /\ node'[n].tx_count # node[n].tx_count

(* C11: the transmit queue is FIFO.  A Tx state hands exactly one frame to *)
(* the radio, the oldest queued one, and leaves the others queued in their *)
(* order; every other step leaves the queued frames in place and in order  *)
(* and puts the frames it enqueues behind them, also when the ring indices *)
(* wrap around.                                                            *)
C11_TxQueueFifo ==
    [][\A n \in DOMAIN node :
          /\ HandedToRadio(n) =>
                /\ node[n].tx_q_size > 0
                /\ node'[n].tx_count = node[n].tx_count + 1
                /\ node'[n].tx_packet = Head(QueuedFrames(node[n]))
                /\ QueuedFrames(node'[n]) = Tail(QueuedFrames(node[n]))
          /\ ~HandedToRadio(n) =>
                /\ IsPrefix(QueuedFrames(node[n]), QueuedFrames(node'[n]))
                /\ node'[n].tx_packet = node[n].tx_packet]_vars

(* The ring has wrapped (the tail is before the head), frames enqueued     *)
(* after the wrap are waiting, and the frame just handed to the radio is   *)
(* the one enqueued right before the oldest waiting one.                   *)
C11_Witness ==
    /\ node[Self].state = "TxDone"
    /\ node[Self].tx_q_tail < node[Self].tx_q_head
    /\ node[Self].tx_q_tail >= 1
    /\ node[Self].tx_q_size >= 2
    /\ node[Self].tx_packet.t = "D"
    /\ QueuedFrames(node[Self])[1].t = "D"
    /\ QueuedFrames(node[Self])[1].id = node[Self].tx_packet.id + 1

(***************************************************************************)
(* Origination of a DATA frame.                                            *)
(***************************************************************************)
(* The step was a queueBleMessage call that returned true. *)
BleAccepted == env'.sends # env.sends /\ env'.ble_result

HasSeen(s, type, origin, msg_id) ==
    \E i \in SeenSlots :
        /\ s.seen[i].used /\ s.seen[i].type = type
        /\ s.seen[i].origin = origin /\ s.seen[i].msg_id = msg_id

HasPending(s, msg_id, dst) ==
    \E i \in PendingSlots :
        /\ s.pending_data[i].used /\ ~s.pending_data[i].acked
        /\ s.pending_data[i].msg_id = msg_id /\ s.pending_data[i].dst = dst

(* The frame a step put at the end of the queue. *)
Appended(n) == QueuedFrames(node'[n])[node'[n].tx_q_size]

(* C12: when queueBleMessage(dst, text) returns true, msg_id is the        *)
(* incremented local sequence, exactly one frame D|self|self|dst|msg_id|4| *)
(* 0|body with a body of at most 48 bytes was appended to the queue, the   *)
(* seen table holds (Data, self, msg_id), and an unacked PendingData entry *)
(* (msg_id, dst) exists.                                                   *)
C12_OriginateData ==
    [][\A n \in DOMAIN node : \A msg_id \in {(node[n].local_msg_seq + 1) % U16} :
          BleAccepted =>
              /\ node'[n].local_msg_seq = msg_id
              /\ node'[n].tx_q_size = node[n].tx_q_size + 1
              /\ IsPrefix(QueuedFrames(node[n]), QueuedFrames(node'[n]))
              /\ Appended(n) = DataFrame(n, n, 1, msg_id, kDefaultTtl, 0, Appended(n).body)
              /\ Len(Appended(n).body) <= 48
              /\ HasSeen(node'[n], "D", n, msg_id)
              /\ HasPending(node'[n], msg_id, 1)]_vars

(***************************************************************************)
(* SpecDeliver: one node with texts arriving over BLE while it listens,    *)
(* hearing DATA addressed to it and ACKs for it and for others.            *)
(***************************************************************************)
DeliverFrames ==
    {DataFrame(1, 1, Self, 7, kDefaultTtl, 0, PayloadWater),
     DataFrame(3, 1, Self, 7, 3, 1, PayloadWater),
     DataFrame(1, 1, Self, 8, 0, 0, TxtHi),
     AckFrame(1, 1, Self, 1, kDefaultTtl, 0),
     AckFrame(1, 1, Self, 2, kDefaultTtl, 0),
     AckFrame(3, 3, Self, 1, kDefaultTtl, 0),
     AckFrame(1, 1, Self, 9, kDefaultTtl, 0),
     AckFrame(1, 1, 3, 5, 2, 0),
     AckFrame(1, 1, 3, 5, 0, 0)}

(* The texts all arrive before the first frame is heard. *)
DeliverBle == env.rx = 0 /\ BleSendMany(Self, 1, TxtHi, TriageChat)

NextDeliver ==
    \/ DeliverBle
    \/ \E f \in DeliverFrames : TickRxFrame(Self, f)
    \/ TickTx(Self) \/ TickTxDone(Self) \/ TickRxDone(Self)

SpecDeliver == InitNode /\ [][NextDeliver]_vars

(* The step read a frame of the given type that no live seen entry matches.*)
ReceivedFresh(n, type) ==
    /\ Received(n)
    /\ node'[n].rx_packet.t = type
    /\ ~SeenHit(node[n], type, node'[n].rx_packet.origin, node'[n].rx_packet.id, now)

(* The step appended one entry to the history ring and touched no other. *)
HistoryAppended(s, after, direction, peer, msg_id) ==
    /\ after.history_head = (s.history_head + 1) % kMaxMessageHistory
    /\ after.history_count =
          IF s.history_count < kMaxMessageHistory THEN s.history_count + 1 ELSE kMaxMessageHistory
    /\ after.history[s.history_head].direction = direction
    /\ after.history[s.history_head].peer = peer
    /\ after.history[s.history_head].msg_id = msg_id
    /\ \A i \in 0..(kMaxMessageHistory - 1) :
          i # s.history_head => after.history[i] = s.history[i]

(* What a fresh DATA for the node itself leaves behind, the queue aside. *)
DataDelivered(n) ==
    /\ HistoryAppended(node[n], node'[n], "R", node'[n].rx_packet.origin, node'[n].rx_packet.id)
    /\ HasSeen(node'[n], "A", n, node'[n].rx_packet.id)

AckOf(n) ==
    AckFrame(n, n, node'[n].rx_packet.origin, node'[n].rx_packet.id, kDefaultTtl, 0)

(* C13 as stated: a non-duplicate DATA with dst = self appends exactly one *)
(* 'R' history entry (peer = origin, same msg_id), enqueues exactly one    *)
(* frame A|self|self|origin|msg_id|4|0, records (Ack, self, msg_id) as     *)
(* seen and does not relay the DATA.                                       *)
C13_ReceiveData ==
    [][\A n \in DOMAIN node :
          (ReceivedFresh(n, "D") /\ node'[n].rx_packet.dst = n) =>
              /\ DataDelivered(n)
              /\ QueuedFrames(node'[n]) = Append(QueuedFrames(node[n]), AckOf(n))]_vars

(* C13 amended: the same, the ACK being enqueued when the transmit queue   *)
(* holds fewer than 12 frames; at 12 frames the queue is left as it is.    *)
C13_ReceiveDataWithRoom ==
    [][\A n \in DOMAIN node :
          (ReceivedFresh(n, "D") /\ node'[n].rx_packet.dst = n) =>
              /\ DataDelivered(n)
              /\ node[n].tx_q_size < kMaxTxQueue =>
                    QueuedFrames(node'[n]) = Append(QueuedFrames(node[n]), AckOf(n))
              /\ node[n].tx_q_size >= kMaxTxQueue =>
                    QueueFields(node'[n]) = QueueFields(node[n])]_vars

(* The relayed copy of DATA 7 was heard first and was answered: the ACK is *)
(* the last of three queued frames and the history holds the message.      *)
C13_Witness ==
    /\ node[Self].state = "RxDone"
    /\ node[Self].rx_packet = DataFrame(3, 1, Self, 7, 3, 1, PayloadWater)
    /\ node[Self].tx_q_size = 3
    /\ QueuedFrames(node[Self])[3] = AckFrame(Self, Self, 1, 7, kDefaultTtl, 0)
    /\ \E i \in 0..(kMaxMessageHistory - 1) :
          /\ node[Self].history[i].direction = "R"
          /\ node[Self].history[i].peer = 1
          /\ node[Self].history[i].msg_id = 7
    /\ HasSeen(node[Self], "A", Self, 7)

(***************************************************************************)
(* Reception of an ACK.                                                    *)
(***************************************************************************)
(* The slots of the unacked entries with the given msg_id. *)
AwaitingAck(s, msg_id) ==
    {i \in PendingSlots :
        /\ s.pending_data[i].used /\ ~s.pending_data[i].acked
        /\ s.pending_data[i].msg_id = msg_id}

(* The lowest awaiting entry was marked acked and removed, nothing else    *)
(* in the table changed.                                                   *)
PendingCleared(s, after, msg_id) ==
    \A i \in PendingSlots :
        IF i \in AwaitingAck(s, msg_id) /\ \A j \in AwaitingAck(s, msg_id) : i <= j
        THEN after.pending_data[i] = [s.pending_data[i] EXCEPT !.acked = TRUE, !.used = FALSE]
        ELSE after.pending_data[i] = s.pending_data[i]

(* The frame that relays the ACK just read, hops aside. *)
AckRelayOf(n, hops) ==
    AckFrame(n, node'[n].rx_packet.origin, node'[n].rx_packet.dst, node'[n].rx_packet.id,
             node'[n].rx_packet.ttl - 1, hops)

AckForSelf(n) == ReceivedFresh(n, "A") /\ node'[n].rx_packet.dst = n

AckToRelay(n) ==
    ReceivedFresh(n, "A") /\ node'[n].rx_packet.dst # n /\ node'[n].rx_packet.ttl > 0

(* C14 as stated: a non-duplicate ACK with dst = self marks the            *)
(* PendingData entry with that msg_id acked and removes it, enqueuing      *)
(* nothing; a non-duplicate ACK with dst # self and ttl > 0 is relayed     *)
(* once with decremented TTL and leaves PendingData unchanged.             *)
C14_ReceiveAck ==
    [][\A n \in DOMAIN node :
          /\ AckForSelf(n) =>
                /\ PendingCleared(node[n], node'[n], node'[n].rx_packet.id)
                /\ QueueFields(node'[n]) = QueueFields(node[n])
          /\ AckToRelay(n) =>
                /\ node'[n].pending_data = node[n].pending_data
                /\ node'[n].tx_q_size = node[n].tx_q_size + 1
                /\ QueuedFrames(node'[n]) =
                      Append(QueuedFrames(node[n]), AckRelayOf(n, Appended(n).hops))]_vars

(* C14 amended: the same, the relay being enqueued when the transmit queue *)
(* holds fewer than 12 frames; at 12 frames the queue is left as it is.    *)
C14_ReceiveAckWithRoom ==
    [][\A n \in DOMAIN node :
          /\ AckForSelf(n) =>
                /\ PendingCleared(node[n], node'[n], node'[n].rx_packet.id)
                /\ QueueFields(node'[n]) = QueueFields(node[n])
          /\ AckToRelay(n) =>
                /\ node'[n].pending_data = node[n].pending_data
                /\ node[n].tx_q_size < kMaxTxQueue =>
                      QueuedFrames(node'[n]) =
                          Append(QueuedFrames(node[n]), AckRelayOf(n, Appended(n).hops))
                /\ node[n].tx_q_size >= kMaxTxQueue =>
                      QueueFields(node'[n]) = QueueFields(node[n])]_vars

(* The ACK of message 1 has removed its entry and left that of message 2,  *)
(* and the ACK for node 3 heard after it waits in the queue with ttl 1.    *)
C14_Witness ==
    /\ node[Self].state = "RxDone"
    /\ node[Self].rx_packet = AckFrame(1, 1, 3, 5, 2, 0)
    /\ QueuedFrames(node[Self]) = <<AckFrame(Self, 1, 3, 5, 1, 1)>>
    /\ node[Self].pending_data[0].msg_id = 1
    /\ node[Self].pending_data[0].acked /\ ~node[Self].pending_data[0].used
    /\ node[Self].pending_data[1].msg_id = 2
    /\ node[Self].pending_data[1].used /\ ~node[Self].pending_data[1].acked

(***************************************************************************)
(* SpecExpire: one node that is given texts for node 1 at times 0 and      *)
(* ExpireGap, may hear the ACK of each, and runs until ExpireEnd.          *)
(***************************************************************************)
ExpireGap == 8000
ExpireEnd == 24000
MaxTexts == 2

ExpireAcks == {AckFrame(1, 1, Self, id, kDefaultTtl, 0) : id \in 1..MaxTexts}

ExpireBle ==
    /\ now <= ExpireGap
    /\ env.sends < MaxTexts
    /\ env' = [env EXCEPT !.sends = env.sends + 1,
                          !.ble_result = queueBleMessageResult(node[Self], TxtHi)]
    /\ node' = [node EXCEPT ![Self] = queueBleMessage(@, 1, TxtHi, TriageChat, now)]
    /\ UNCHANGED <<now, adj>>

ExpireAdvance ==
    /\ now + ExpireGap <= ExpireEnd
    /\ now' = now + ExpireGap
    /\ UNCHANGED <<node, adj, env>>

NextExpire ==
    \/ ExpireBle
    \/ \E f \in ExpireAcks : TickRxFrame(Self, f)
    \/ TickClean(Self)
    \/ ExpireAdvance

SpecExpire == InitNode /\ [][NextExpire]_vars

(* A tick of the state machine: every state function leaves its state. *)
Ticked == node'[Self].state # node[Self].state

(* The loop calls tick() for ever and the clock runs. *)
SpecExpireFair ==
    /\ SpecExpire
    /\ []<><<Ticked>>_vars
    /\ WF_vars(ExpireAdvance)

(***************************************************************************)
(* Expiry of PendingData                                                   *)
(***************************************************************************)
SchedulersRan(n) ==
    /\ node[n].state \in {"Idle", "RxDone", "RxTimeout"}
    /\ node'[n].state # node[n].state

TimedOut(p, t) == p.used /\ ~p.acked /\ t - p.sent_at_ms > kAckTimeoutMs

(* The entry a DATA frame originated in this very step has left. *)
IssuedNow(n, p) ==
    /\ p.used /\ ~p.acked /\ p.sent_at_ms = now
    /\ p.msg_id = node'[n].local_msg_seq
    /\ node'[n].local_msg_seq # node[n].local_msg_seq

ExpiryStep(n) ==
    /\ \A i \in PendingSlots :
          IF TimedOut(node[n].pending_data[i], now)
          THEN \/ node'[n].pending_data[i] = [node[n].pending_data[i] EXCEPT !.used = FALSE]
               \/ IssuedNow(n, node'[n].pending_data[i])
          ELSE \/ node'[n].pending_data[i] = node[n].pending_data[i]
               \/ /\ ~node[n].pending_data[i].used
                  /\ IssuedNow(n, node'[n].pending_data[i])
    /\ IsPrefix(QueuedFrames(node[n]), QueuedFrames(node'[n]))
    /\ \A k \in (node[n].tx_q_size + 1)..node'[n].tx_q_size :
          \/ QueuedFrames(node'[n])[k].t = "H"
          \/ /\ QueuedFrames(node'[n])[k].t = "D"
             /\ QueuedFrames(node'[n])[k].id = node'[n].local_msg_seq
             /\ node'[n].local_msg_seq # node[n].local_msg_seq
    /\ (now < node[n].next_heartbeat_at_ms /\ now < node[n].next_test_data_at_ms)
          => QueueFields(node'[n]) = QueueFields(node[n])

UsedIds(s) == {s.pending_data[i].msg_id : i \in {j \in PendingSlots : s.pending_data[j].used}}

ExpiresWithin(s, id, end) ==
    \E i \in PendingSlots :
        /\ s.pending_data[i].used /\ s.pending_data[i].msg_id = id
        /\ s.pending_data[i].sent_at_ms + kAckTimeoutMs < end

MaxIssued == 4

(* The last time the clock of SpecExpire reaches. *)
ExpireLast == (ExpireEnd \div ExpireGap) * ExpireGap

UsedSlots(s) == {i \in PendingSlots : s.pending_data[i].used}

(* C16: the PendingData table never holds two used entries with the same   *)
(* msg_id (fewer than 2^16 messages are originated in the run).            *)
C16_PendingUniqueIds ==
    \A n \in DOMAIN node :
        node[n].local_msg_seq < U16 - 1 =>
            \A i, j \in UsedSlots(node[n]) :
                node[n].pending_data[i].msg_id = node[n].pending_data[j].msg_id => i = j

C16_Witness ==
    /\ UsedSlots(node[Self]) = PendingSlots
    /\ node[Self].local_msg_seq > kMaxPendingData
    /\ now > kAckTimeoutMs

(***************************************************************************)
(* SpecParse: one node that is handed texts, well formed and not.          *)
(***************************************************************************)
Hex0001 == <<"0", "0", "0", "1">>
Hex0002 == <<"0", "0", "0", "2">>
Bar == <<"|">>

(* "D|0001|0001" *)
TextShortData == <<"D">> \o Bar \o Hex0001 \o Bar \o Hex0001
(* "A|0001|0001|0002|1|4" *)
TextShortAck ==
    <<"A">> \o Bar \o Hex0001 \o Bar \o Hex0001 \o Bar \o Hex0002 \o Bar \o <<"1">> \o Bar \o <<"4">>
(* "H|0001" *)
TextHeartbeatNoSeq == <<"H">> \o Bar \o Hex0001
(* "H|0001|7" *)
TextHeartbeatBare == <<"H">> \o Bar \o Hex0001 \o Bar \o <<"7">>
(* "H|zz|5" *)
TextHeartbeatNoId == <<"H">> \o Bar \o <<"z", "z">> \o Bar \o <<"5">>
(* "H|0001|3|A5B25713|Node-0001|3|0" *)
TextHeartbeat ==
    <<"H">> \o Bar \o Hex0001 \o Bar \o <<"3">> \o Bar
    \o <<"A", "5", "B", "2", "5", "7", "1", "3">> \o Bar \o NameText(1) \o Bar
    \o <<"3">> \o Bar \o <<"0">>
(* "D|0001|0001|0002|1|4|0|hi" *)
TextData ==
    <<"D">> \o Bar \o Hex0001 \o Bar \o Hex0001 \o Bar \o Hex0002 \o Bar \o <<"1">> \o Bar
    \o <<"4">> \o Bar \o <<"0">> \o Bar \o TxtHi
(* "D|zz|0001|0002|x|4|0|hi" *)
TextDataNoNumbers ==
    <<"D">> \o Bar \o <<"z", "z">> \o Bar \o Hex0001 \o Bar \o Hex0002 \o Bar \o <<"x">> \o Bar
    \o <<"4">> \o Bar \o <<"0">> \o Bar \o TxtHi
(* "D||0001|0002|1|4|0|hi" *)
TextDataEmptyFrom ==
    <<"D">> \o Bar \o Bar \o Hex0001 \o Bar \o Hex0002 \o Bar \o <<"1">> \o Bar
    \o <<"4">> \o Bar \o <<"0">> \o Bar \o TxtHi
(* "X|0001|0001|0002|1|4|0" *)
TextOtherType ==
    <<"X">> \o Bar \o Hex0001 \o Bar \o Hex0001 \o Bar \o Hex0002 \o Bar \o <<"1">> \o Bar
    \o <<"4">> \o Bar \o <<"0">>

ParseTexts ==
    {TextShortData, TextShortAck, TextHeartbeatNoSeq, TextHeartbeatBare, TextHeartbeatNoId,
     TextHeartbeat, TextData, TextDataNoNumbers, TextDataEmptyFrom, TextOtherType, Bar, <<>>}

NextParse ==
    \/ \E text \in ParseTexts : TickRxFrame(Self, TextFrame(text))
    \/ TickTx(Self) \/ TickTxDone(Self) \/ TickRxDone(Self)

SpecParse == InitNode /\ [][NextParse]_vars

(***************************************************************************)
(* Frames that are not well formed                                         *)
(***************************************************************************)
(* The fields of a text as the frame codec has them: every "|" ends one,   *)
(* and the seventh "|" begins the body or the gossip.                      *)
RECURSIVE CodecFields(_, _, _)
CodecFields(text, pos, k) ==
    IF k = 0 \/ pos > Len(text) + 1 THEN <<>>
    ELSE <<SubSeq(text, pos, TokenEnd(text, "|", pos) - 1)>>
         \o CodecFields(text, TokenEnd(text, "|", pos) + 1, k - 1)

kCodecFields == 7

IsNumber(tok, base) ==
    /\ Len(tok) > 0
    /\ \A i \in 1..Len(tok) : DigitOf(tok[i], base) >= 0

HasRequiredFields(text) ==
    /\ Len(CodecFields(text, 1, kCodecFields)) = kCodecFields
    /\ \A i \in 1..kCodecFields : Len(CodecFields(text, 1, kCodecFields)[i]) > 0

HasValidNumbers(text) ==
    /\ HasRequiredFields(text)
    /\ IsNumber(CodecFields(text, 1, kCodecFields)[2], 16)
    /\ IsNumber(CodecFields(text, 1, kCodecFields)[6], 10)
    /\ IsNumber(CodecFields(text, 1, kCodecFields)[7], 10)
    /\ IF CodecFields(text, 1, kCodecFields)[1] = <<"H">>
       THEN /\ IsNumber(CodecFields(text, 1, kCodecFields)[3], 10)
            /\ IsNumber(CodecFields(text, 1, kCodecFields)[4], 16)
       ELSE /\ IsNumber(CodecFields(text, 1, kCodecFields)[3], 16)
            /\ IsNumber(CodecFields(text, 1, kCodecFields)[4], 16)
            /\ IsNumber(CodecFields(text, 1, kCodecFields)[5], 10)

IsProtocolText(text) ==
    Len(text) > 0 /\ text[1] \in {"H", "D", "A"}

ReceivedText(n) ==
    /\ node'[n].rx_count # node[n].rx_count
    /\ node'[n].rx_packet.t = "text"

TablesOf(s) ==
    <<s.members, s.seen, QueueFields(s), s.pending_data,
      s.history, s.history_head, s.history_count, s.error_count>>

(* All of the node's state but what runStateRx itself writes. *)
BeyondRx(s) ==
    [s EXCEPT !.state = "", !.rx_count = 0, !.rx_packet = NoFrame, !.operation_done = FALSE]

(* C17: a received frame that lacks a required field is dropped: neighbor  *)
(* table, seen table, transmit queue, PendingData, history and error_count *)
(* stay as they were, and the state machine goes on to RxDone.             *)
C17_MalformedDropped ==
    [][\A n \in DOMAIN node :
          (ReceivedText(n) /\ ~HasRequiredFields(node'[n].rx_packet.body)) =>
              /\ TablesOf(node'[n]) = TablesOf(node[n])
              /\ node'[n].state = "RxDone"]_vars

(* C18: a HEARTBEAT, DATA or ACK frame that lacks a required field, or in  *)
(* which a numeric field is not a number of its base, changes no state;    *)
(* and no neighbor entry ever has node_id 0.                               *)
C18_FrameRejection ==
    /\ [][\A n \in DOMAIN node :
            (/\ ReceivedText(n)
             /\ IsProtocolText(node'[n].rx_packet.body)
             /\ ~HasValidNumbers(node'[n].rx_packet.body)) =>
                BeyondRx(node'[n]) = BeyondRx(node[n])]_vars
    /\ [](\A n \in DOMAIN node : \A i \in MemberSlots :
            node[n].members[i].used => node[n].members[i].node_id # 0)

(* "D|0001|0001" is dropped, whatever the node has learnt before. *)
ShortDataDropped ==
    [][\A n \in DOMAIN node :
          (ReceivedText(n) /\ node'[n].rx_packet.body = TextShortData) =>
              /\ BeyondRx(node'[n]) = BeyondRx(node[n])
              /\ node'[n].state = "RxDone"
              /\ node'[n].rx_count = Add32(node[n].rx_count, 1)]_vars

(***************************************************************************)
(* SpecHistory: one node that receives MaxHistory DATA frames for itself,  *)
(* is given texts at the start and near the end, and whose history is read *)
(* between two frames.  env.log lists what has been appended so far.       *)
(***************************************************************************)
MaxHistory == 66
MaxHistoryTexts == 2

HistoryFrame(k) == DataFrame(1, 1, Self, k, 0, 0, TxtHi)

Logged(direction, peer, msg_id) == [direction |-> direction, peer |-> peer, msg_id |-> msg_id]

NoRead(e) == [e EXCEPT !.hist_idx = -1, !.hist_ok = FALSE, !.hist_out = HistoryEntry0]

HistoryStream ==
    /\ Running(Self, "Rx")
    /\ env.fill < MaxHistory
    /\ env' = [NoRead(env) EXCEPT !.fill = env.fill + 1,
                                  !.log = Append(env.log, Logged("R", 1, env.fill + 1))]
    /\ node' = [node EXCEPT ![Self] =
                   runStateRx(@, now, [Quiet EXCEPT !.frame = HistoryFrame(env.fill + 1)])]
    /\ UNCHANGED <<now, adj>>

HistoryBle ==
    /\ Running(Self, "Rx")
    /\ env.sends < MaxHistoryTexts
    /\ env.fill \in {0, MaxHistory - 1}
    /\ env' = [NoRead(env) EXCEPT
                  !.sends = env.sends + 1,
                  !.ble_result = queueBleMessageResult(node[Self], TxtHi),
                  !.log = Append(env.log,
                                 Logged("S", 1, (node[Self].local_msg_seq + 1) % U16))]
    /\ node' = [node EXCEPT ![Self] = queueBleMessage(@, 1, TxtHi, TriageChat, now)]
    /\ UNCHANGED <<now, adj>>

(* A call of getMessageHistory(idx, &out), out holding HistoryEntry0. *)
HistoryRead(idx) ==
    /\ Running(Self, "Rx")
    /\ env.hist_idx = -1
    /\ env' = [env EXCEPT !.hist_idx = idx,
                          !.hist_ok = getMessageHistoryResult(node[Self], idx),
                          !.hist_out = IF getMessageHistoryResult(node[Self], idx)
                                       THEN getMessageHistory(node[Self], idx) ELSE @]
    /\ UNCHANGED <<node, now, adj>>

(* The indices read: both ends of the ring, and the two beyond it. *)
HistoryIdx == {0, 1} \cup ((kMaxMessageHistory - 2)..(kMaxMessageHistory + 1))

NextHistory ==
    \/ HistoryStream
    \/ HistoryBle
    \/ \E idx \in HistoryIdx : HistoryRead(idx)
    \/ TickTx(Self) \/ TickTxDone(Self) \/ TickRxDone(Self)

SpecHistory == InitNode /\ [][NextHistory]_vars

(***************************************************************************)
(* The message history                                                     *)
(***************************************************************************)
Retained == Min(Len(env.log), kMaxMessageHistory)

(* The idx-th oldest of the entries retained. *)
RetainedAt(idx) == env.log[Len(env.log) - Retained + idx + 1]

(* C19: history_count never exceeds 64 and counts the entries appended up  *)
(* to 64; getMessageHistory(idx) returns true exactly when idx is below    *)
(* history_count, and then gives the idx-th oldest of the entries retained,*)
(* which are the most recent appends in their order; otherwise it returns  *)
(* false and writes nothing.                                               *)
C19_HistoryRing ==
    /\ node[Self].history_count <= kMaxMessageHistory
    /\ node[Self].history_count = Retained
    /\ env.hist_idx >= 0 =>
          /\ env.hist_ok <=> env.hist_idx < node[Self].history_count
          /\ env.hist_ok =>
                Logged(env.hist_out.direction, env.hist_out.peer, env.hist_out.msg_id)
                    = RetainedAt(env.hist_idx)
          /\ ~env.hist_ok => env.hist_out = HistoryEntry0

C19_Witness ==
    /\ Len(env.log) > kMaxMessageHistory + 1
    /\ env.hist_idx = kMaxMessageHistory - 1
    /\ env.hist_ok
    /\ env.hist_out.direction = "S"
    /\ node[Self].history_head = 3

(***************************************************************************)
(* SpecLeader: node 3 hears node 1 at the start only, and node 2 at any    *)
(* time; the clock runs to LeaderEnd, past the timeout of node 1.          *)
(***************************************************************************)
LeaderNode == Self + 1
LeaderGap == 8000
LeaderEnd == 24000
MaxLeaderHeard == 3

InitLeader ==
    /\ node = [n \in {LeaderNode} |-> begin(NodeObject(n), 0)]
    /\ now = 0
    /\ adj = {}
    /\ env = Env0

LeaderFrame(id) ==
    HeartbeatFrame(id, now \div LeaderGap + 1, HopSeedOf(id), NodeNameOf(id), 0, 0, <<>>)

LeaderHear(id) ==
    /\ Running(LeaderNode, "Rx")
    /\ env.rx < MaxLeaderHeard
    /\ id = 1 => now = 0
    /\ env' = [env EXCEPT !.rx = env.rx + 1]
    /\ node' = [node EXCEPT ![LeaderNode] =
                   runStateRx(@, now, [Quiet EXCEPT !.frame = LeaderFrame(id)])]
    /\ UNCHANGED <<now, adj>>

LeaderAdvance ==
    /\ Running(LeaderNode, "Rx")
    /\ now + LeaderGap <= LeaderEnd
    /\ now' = now + LeaderGap
    /\ UNCHANGED <<node, adj, env>>

NextLeader ==
    \/ \E id \in {1, 2} : LeaderHear(id)
    \/ TickClean(LeaderNode)
    \/ LeaderAdvance

SpecLeader == InitLeader /\ [][NextLeader]_vars

LeaderTicked == node'[LeaderNode].state # node[LeaderNode].state

(* The loop calls tick() for ever, and the clock runs. *)
SpecLeaderFair ==
    /\ SpecLeader
    /\ []<><<LeaderTicked>>_vars
    /\ SF_vars(LeaderAdvance)

(***************************************************************************)
(* The change of the leader                                                *)
(***************************************************************************)
(* The leader held is a neighbor that has not been heard for more than     *)
(* MembershipTimeout.                                                      *)
LeaderGoneDark(s) ==
    /\ s.hop_leader_id # s.node_id % U16
    /\ s.hop_leader_id \notin LiveIdsOf(s, now)

LeaderSettled(s) == IsLowest(s.hop_leader_id, LiveIdsOf(s, now))

(* The channel is the one computed from the leader's seed and seq. *)
ChannelOfLeader(s) ==
    /\ s.last_hop_seq = LeaderSeq(s, LeaderEntry(s))
    /\ s.current_hop_channel =
          computeHopChannelIndex(LeaderSeed(s, LeaderEntry(s)), s.last_hop_seq)

OwnHeartbeatSent(s, k) ==
    /\ s.tx_packet.t = "H" /\ s.tx_packet.from = s.node_id % U16
    /\ s.tx_packet.id > k

MaxBeats == 4

WrapGap == 3000
WrapStart == 0 - 2 * WrapGap
MaxWrapSteps == 5
MaxWrapBeats == 4

WrapHeard == HeartbeatFrame(1, 1, HopSeedOf(1), NodeNameOf(1), 0, 0, <<>>)

WrapJump ==
    /\ now = 0
    /\ env.fill = 0
    /\ Running(Self, "RxTimeout")
    /\ now' = WrapStart
    /\ node' = [node EXCEPT ![Self] = runStateRxTimeout(@, WrapStart, Quiet)]
    /\ env' = [env EXCEPT !.fill = 1]
    /\ UNCHANGED adj

WrapAdvance ==
    /\ env.fill > 0
    /\ env.fill < MaxWrapSteps
    /\ Running(Self, "Rx")
    /\ now' = Add32(now, WrapGap)
    /\ env' = [env EXCEPT !.fill = env.fill + 1]
    /\ UNCHANGED <<node, adj>>

WrapTick ==
    /\ node[Self].heartbeat_seq < MaxWrapBeats
    /\ node[Self].local_msg_seq < MaxWrapBeats
    /\ TickClean(Self)

NextWrap ==
    \/ WrapJump
    \/ WrapAdvance
    \/ TickRxFrame(Self, WrapHeard)
    \/ WrapTick

SpecWrap == InitNode /\ [][NextWrap]_vars

(***************************************************************************)
(* The timers across the wrap                                              *)
(***************************************************************************)
(* The time set has come: at is never more than seconds from the clock. *)
TimerDue(at) == now - at >= 0

(* C21: across the wrap of the millisecond counter, a scheduler run emits  *)
(* a heartbeat, a test DATA round and a membership print exactly when the  *)
(* time set for it has come, and evaluates the hop when its time has come; *)
(* and it leaves every PendingData entry younger than AckTimeout.          *)
C21_TimeWrap ==
    [][\A n \in DOMAIN node : (SchedulersRan(n) /\ now' = now) =>
          /\ node'[n].heartbeat_seq # node[n].heartbeat_seq
                <=> TimerDue(node[n].next_heartbeat_at_ms)
          /\ node'[n].next_test_data_at_ms # node[n].next_test_data_at_ms
                <=> TimerDue(node[n].next_test_data_at_ms)
          /\ node'[n].next_membership_print_at_ms # node[n].next_membership_print_at_ms
                <=> TimerDue(node[n].next_membership_print_at_ms)
          /\ TimerDue(node[n].next_hop_at_ms) =>
                node'[n].next_hop_at_ms = Add32(now, kHopIntervalMs)
          /\ \A i \in PendingSlots :
                (node[n].pending_data[i].used /\ ~TimedOut(node[n].pending_data[i], now))
                    => node'[n].pending_data[i] = node[n].pending_data[i]]_vars

(***************************************************************************)
(* The text classifier: the feature vector                                 *)
(*                                                                         *)
(* A text is a string and a character a string of length one.  A float of  *)
(* the vector is written as the fraction it is computed from: every        *)
(* division of buildVector has a whole numerator and denominator, a        *)
(* quotient n / n is exactly 1.0f, and the order of a quotient and 0 or 1  *)
(* is the order of its numerator and 0 or its denominator.                 *)
(***************************************************************************)
kFeatureDim == 82
kStructureDim == 8
kNgramBins == 64
kNgramStart == 18

kTimeWords ==
    <<"now", "asap", "urgent", "tonight", "immediately", "right away",
      "soon", "quick">>
kLocWords ==
    <<"at", "near", "behind", "by", "next to", "around", "in", "gps",
      "coords", "coordinate", "location", "library", "bridge", "camp",
      "market", "hospital", "school">>
kBucketMedic ==
    <<"medic", "doctor", "injured", "bleed", "bleeding", "unconscious",
      "hurt", "wounded", "ambulance", "pain", "trauma", "emergency",
      "critical", "wound", "wounds", "fracture", "broken bone", "stabilize",
      "first aid", "paramedic", "nurse", "hospital", "bleeding out",
      "hemorrhage", "concussion", "laceration", "stitches", "cardiac", "cpr",
      "resuscitate", "collapse", "unresponsive", "casualty", "casualties",
      "not talking">>
kBucketWater ==
    <<"water", "thirsty", "dehydration", "bottle", "well", "hydration",
      "drink", "drinking", "dry", "clean water", "potable",
      "running out of water", "no water", "water supply", "thirst",
      "parched", "reservoir", "purify", "filter", "cistern", "faucet",
      "running water">>
kBucketFood ==
    <<"food", "hungry", "ration", "rice", "bread", "meal", "starving",
      "rations", "supplies", "feed", "feeding", "malnutrition", "famine",
      "provisions", "groceries", "eat", "eating", "kitchen", "cook",
      "cooking", "starvation", "no food", "out of food", "need food",
      "run out">>
kBucketShelter ==
    <<"shelter", "tent", "roof", "cold", "sleep", "blanket", "safehouse",
      "housing", "warm", "warmth", "indoors", "building", "refuge", "camp",
      "campsite", "bed", "sleeping", "freezing", "hypothermia", "frostbite",
      "nowhere to stay", "homeless", "evicted">>
kBucketDanger ==
    <<"gun", "shooting", "shots", "explosion", "attack", "fire", "bomb",
      "sniper", "danger", "gunfire", "armed", "weapon", "weapons",
      "violence", "hostile", "strike", "striking", "explosive", "blast",
      "IED", "grenade", "ambush", "raid", "invasion", "threat", "threatened">>
kBucketEvac ==
    <<"evacuate", "leave", "run", "escape", "exit", "safe route", "move out",
      "relocate", "evacuation", "evac", "get out", "flee", "fleeing",
      "exodus", "withdraw", "pull out", "route out", "safe path",
      "clear path", "extract", "extraction", "rescue", "evacuees">>
kBucketInfo ==
    <<"where", "when", "status", "update", "check-in", "anyone", "need info",
      "what's up", "whats up", "news", "situation", "report", "intel",
      "intelligence", "briefing", "sitrep", "location of", "anyone know",
      "heard", "rumor", "confirmed", "unconfirmed", "latest", "current">>
kBucketDisaster ==
    <<"flood", "flooding", "flooded", "water everywhere", "earthquake",
      "quake", "tsunami", "landslide", "hurricane", "tornado", "storm",
      "disaster", "natural disaster", "wildfire", "mudslide", "avalanche",
      "cyclone", "typhoon", "drought", "blizzard", "hail",
      "building collapse", "collapsed", "washed away", "inundated",
      "submerged", "trapped">>
kBucketSickness ==
    <<"sick", "illness", "ill", "fever", "cough", "virus", "disease",
      "vomiting", "diarrhea", "symptoms", "infection", "infected",
      "contagious", "outbreak", "epidemic", "pandemic", "nausea", "dizzy",
      "weak", "can't breathe", "shortness of breath", "chest pain",
      "allergic", "allergy", "reaction", "poisoning", "food poisoning",
      "dehydrated">>
kBucketChat ==
    <<"lol", "ok", "okay", "thanks", "thank you", "see you", "brb", "hi",
      "hello", "good", "nice", "hey", "yeah", "yep", "nope", "sure", "cool",
      "great", "fine", "bye", "later", "got it", "understood", "copy",
      "roger", "check", "alright", "whatever", "k">>
kBuckets ==
    <<kBucketMedic, kBucketWater, kBucketFood, kBucketShelter, kBucketDanger,
      kBucketEvac, kBucketInfo, kBucketDisaster, kBucketSickness, kBucketChat>>

At(s, i) == SubSeq(s, i, i)

Lower ==
    <<"a", "b", "c", "d", "e", "f", "g", "h", "i", "j", "k", "l", "m",
      "n", "o", "p", "q", "r", "s", "t", "u", "v", "w", "x", "y", "z">>
Upper ==
    <<"A", "B", "C", "D", "E", "F", "G", "H", "I", "J", "K", "L", "M",
      "N", "O", "P", "Q", "R", "S", "T", "U", "V", "W", "X", "Y", "Z">>

IndexIn(seq, c) ==
    IF \E i \in DOMAIN seq : seq[i] = c THEN CHOOSE i \in DOMAIN seq : seq[i] = c ELSE 0

isupper(c) == IndexIn(Upper, c) > 0
islower(c) == IndexIn(Lower, c) > 0
isdigit(c) == DigitOf(c, 10) >= 0
isalpha(c) == isupper(c) \/ islower(c)
isalnum(c) == isalpha(c) \/ isdigit(c)
tolower(c) == IF isupper(c) THEN Lower[IndexIn(Upper, c)] ELSE c

(* The byte of a character (ASCII). *)
CharCode(c) ==
    IF islower(c) THEN 96 + IndexIn(Lower, c)
    ELSE IF isupper(c) THEN 64 + IndexIn(Upper, c)
    ELSE IF isdigit(c) THEN 48 + DigitOf(c, 10)
    ELSE CASE c = " " -> 32 [] c = "!" -> 33 [] c = "'" -> 39 [] c = "-" -> 45
           [] c = "." -> 46 [] c = "?" -> 63

strstr(haystack, needle) ==
    \E i \in 1..(Len(haystack) - Len(needle) + 1) :
        SubSeq(haystack, i, i + Len(needle) - 1) = needle

containsAnySubstring(haystack, words) ==
    \E i \in DOMAIN words : strstr(haystack, words[i])

(* A word of norm, from a character after a space (or the first) up to the *)
(* next space (or the end), that has the length and characters of token.   *)
containsToken(norm, token) ==
    /\ Len(token) > 0
    /\ \E p \in 1..(Len(norm) - Len(token) + 1) :
          /\ At(norm, p) # " " /\ (p = 1 \/ At(norm, p - 1) = " ")
          /\ \A k \in p..(p + Len(token) - 1) : At(norm, k) # " "
          /\ p + Len(token) > Len(norm) \/ At(norm, p + Len(token)) = " "
          /\ SubSeq(norm, p, p + Len(token) - 1) = token

(* What the loop of normalizeText writes for in[i]: the lower-case form of *)
(* a letter or digit; for any other character a space when prev_space is   *)
(* false, which is when the character before it is a letter or digit, and  *)
(* nothing otherwise.                                                      *)
Written(in, i) ==
    IF isalnum(At(in, i)) THEN tolower(At(in, i))
    ELSE IF i > 1 /\ isalnum(At(in, i - 1)) THEN " "
    ELSE ""

(* What is written for in[lo] .. in[hi], the two halves joined. *)
RECURSIVE WrittenFor(_, _, _)
WrittenFor(in, lo, hi) ==
    IF lo > hi THEN ""
    ELSE IF lo = hi THEN Written(in, lo)
    ELSE WrittenFor(in, lo, (lo + hi) \div 2) \o WrittenFor(in, (lo + hi) \div 2 + 1, hi)

DropLastSpace(out) ==
    IF Len(out) > 0 /\ At(out, Len(out)) = " " THEN SubSeq(out, 1, Len(out) - 1) ELSE out

(* The loop ends at the end of the text or when out_len - 1 characters are *)
(* written.                                                                *)
normalizeText(in, out_len) ==
    DropLastSpace(Trunc(WrittenFor(in, 1, Len(in)), out_len - 1))

(* 0x811C9DC5 and 0x01000193 *)
kFnvOffset == W32(33052, 40389)
kFnvPrime == W32(256, 403)

(* h ^= byte: the byte has bits in the low eight places only. *)
XorBit(a, b, k) == 2^k * (((a \div 2^k) + (b \div 2^k)) % 2)

XorByte(h, byte) ==
    W32(Hi16(h), (Lo16(h) \div U8) * U8
                 + XorBit(Lo16(h), byte, 0) + XorBit(Lo16(h), byte, 1)
                 + XorBit(Lo16(h), byte, 2) + XorBit(Lo16(h), byte, 3)
                 + XorBit(Lo16(h), byte, 4) + XorBit(Lo16(h), byte, 5)
                 + XorBit(Lo16(h), byte, 6) + XorBit(Lo16(h), byte, 7))

Fnv1aRound(h, c) == Mul32(XorByte(h, CharCode(c)), kFnvPrime)

(* The values of h: before the loop and after each of the first n rounds. *)
RECURSIVE Fnv1aStates(_, _)
Fnv1aStates(s, n) ==
    IF n = 0 THEN <<kFnvOffset>>
    ELSE LET before == Fnv1aStates(s, n - 1)
         IN  Append(before, Fnv1aRound(before[n], At(s, n)))

fnv1a32(s, n) == Fnv1aStates(s, n)[n + 1]

(* A fraction num / den. *)
Ratio(n, d) == [num |-> n, den |-> d]

CountOf(s, Test(_)) == Cardinality({i \in 1..Len(s) : Test(At(s, i))})

len_words(norm) ==
    Cardinality({i \in 1..Len(norm) : (i = 1 \/ At(norm, i - 1) = " ") /\ At(norm, i) # " "})

HasChar(raw, c) == \E i \in 1..Len(raw) : At(raw, i) = c

Flag(b) == IF b THEN Ratio(1, 1) ELSE Ratio(0, 1)

(* min(caps_ratio * 10.0f, 1.0f), caps_ratio being caps / letters or 0. *)
CapsFeature(caps, letters) ==
    IF letters = 0 THEN Ratio(0, 1)
    ELSE IF caps * 10 >= letters THEN Ratio(1, 1)
    ELSE Ratio(caps * 10, letters)

(* x[0] .. x[7] *)
StructureFeature(raw, norm, i) ==
    CASE i = 0 -> Ratio(Min(len_words(norm), 50), 50)
      [] i = 1 -> Ratio(Min(Len(norm), 200), 200)
      [] i = 2 -> Ratio(Min(CountOf(raw, isdigit), 20), 20)
      [] i = 3 -> Flag(HasChar(raw, "!"))
      [] i = 4 -> Flag(HasChar(raw, "?"))
      [] i = 5 -> CapsFeature(CountOf(raw, isupper), CountOf(raw, isalpha))
      [] i = 6 -> Flag(\E w \in DOMAIN kTimeWords : containsToken(norm, kTimeWords[w]))
      [] i = 7 -> Flag(containsAnySubstring(norm, kLocWords))

(* x[kStructureDim + bi]: the number of the bucket's words found. *)
BucketScore(norm, words) == Cardinality({wi \in DOMAIN words : strstr(norm, words[wi])})

BucketFeature(norm, bi) == Ratio(BucketScore(norm, kBuckets[bi + 1]), 1)

(* The bin of the window at padded[i], -1 for a window of spaces. *)
NgramBin(padded, i) ==
    IF SubSeq(padded, i, i + 3) = "    " THEN -1
    ELSE Lo16(fnv1a32(SubSeq(padded, i, i + 3), 4)) % kNgramBins

(* The bins of the windows at padded[lo] .. padded[hi], in order. *)
RECURSIVE NgramBinsFor(_, _, _)
NgramBinsFor(padded, lo, hi) ==
    IF lo > hi THEN <<>>
    ELSE IF lo = hi THEN <<NgramBin(padded, lo)>>
    ELSE NgramBinsFor(padded, lo, (lo + hi) \div 2)
         \o NgramBinsFor(padded, (lo + hi) \div 2 + 1, hi)

(* for (i = 0; i + 4 <= p_len; ++i) *)
NgramBins(padded) == NgramBinsFor(padded, 1, Len(padded) - 3)

NgramCount(bins, b) == Cardinality({i \in DOMAIN bins : bins[i] = b})

(* A bin that is not clamped. *)
NgramFeature_NoClamp(count) == Ratio(count, 15)

NgramFeature(count) == Ratio(IF count > 15 THEN 15 ELSE count, 15)

VectorOf(raw, norm, bins) ==
    [i \in 0..(kFeatureDim - 1) |->
        IF i < kStructureDim THEN StructureFeature(raw, norm, i)
        ELSE IF i < kNgramStart THEN BucketFeature(norm, i - kStructureDim)
        ELSE NgramFeature(NgramCount(bins, i - kNgramStart))]

NormOf(raw) == normalizeText(raw, 160)

VectorOfRaw(raw) == VectorOf(raw, NormOf(raw), NgramBins(" " \o NormOf(raw) \o " "))

buildVector(text) == VectorOfRaw(Trunc(text, 159))

(***************************************************************************)
(* A specification of buildVector alone: a text is typed word by word and  *)
(* its vector is built.  env.fill counts the words typed.                  *)
(***************************************************************************)
MaxTriageWords == 3

(* The last word has 70 digits: three of them pass the 159 characters that *)
(* buildVector reads.                                                      *)
TriageWords ==
    {"thirsty", "water", "aaaaaaaaaaaaaaaaaaa", "bbbbbbbbbbbbbbbbbbb", "HELP!", "now?", "at 9",
     "7777777777777777777777777777777777777777777777777777777777777777777777"}

TriageType(w) ==
    /\ env.fill < MaxTriageWords
    /\ env' = [env EXCEPT !.fill = @ + 1, !.text = IF @ = "" THEN w ELSE @ \o " " \o w,
                          !.x = <<>>, !.built = FALSE]
    /\ UNCHANGED <<node, now, adj>>

TriageBuild ==
    /\ ~env.built
    /\ env' = [env EXCEPT !.x = buildVector(env.text), !.built = TRUE]
    /\ UNCHANGED <<node, now, adj>>

NextTriage == (\E w \in TriageWords : TriageType(w)) \/ TriageBuild

SpecTriage == InitNode /\ [][NextTriage]_vars

(***************************************************************************)
(* The bounds of the feature vector                                        *)
(***************************************************************************)
InUnit(r) == 0 <= r.num /\ r.num <= r.den
IsOne(r) == r.num = r.den
NgramIndices == kNgramStart..(kFeatureDim - 1)
BucketIndices == kStructureDim..(kNgramStart - 1)
FullBins == {i \in NgramIndices : IsOne(env.x[i])}

(* C22 as stated: every entry of the vector built for a text lies in       *)
(* [0, 1], and at most one of the 64 n-gram bins equals 1.0.               *)
C22_FeatureBounds ==
    env.built =>
        /\ \A i \in 0..(kFeatureDim - 1) : InUnit(env.x[i])
        /\ Cardinality(FullBins) <= 1

(* C22 amended: the structural entries and the n-gram bins lie in [0, 1];  *)
(* a bucket entry is the whole number of the bucket's words found, from 0  *)
(* to the size of the bucket; a bin equals 1.0 when 15 or more windows     *)
(* fell into it, so 15 times the number of such bins is at most the        *)
(* length of the text read.                                                *)
C22_FeatureBoundsAmended ==
    env.built =>
        /\ \A i \in (0..(kFeatureDim - 1)) \ BucketIndices : InUnit(env.x[i])
        /\ \A i \in BucketIndices :
              /\ env.x[i].den = 1
              /\ env.x[i].num \in 0..Len(kBuckets[i - kStructureDim + 1])
        /\ 15 * Cardinality(FullBins) <= Len(Trunc(env.text, 159))

(* a vector with a bucket entry above 1 and two bins at 1.0 *)
C22_Witness ==
    /\ env.built
    /\ \E i \in BucketIndices : env.x[i].num > env.x[i].den
    /\ Cardinality(FullBins) >= 2

(***************************************************************************)
(* SpecRadio: one node whose radio may fail once, hearing a heartbeat and  *)
(* a DATA frame for itself, with a text sent over BLE and the clock        *)
(* running.                                                                *)
(***************************************************************************)
RadioGap == 6000
RadioEnd == 12000

RadioAdvance ==
    /\ now + RadioGap <= RadioEnd
    /\ now' = now + RadioGap
    /\ UNCHANGED <<node, adj, env>>

RadioFrames ==
    {HeartbeatFrame(1, 1, HopSeedOf(1), NodeNameOf(1), 0, 0, <<>>),
     DataFrame(1, 1, Self, 1, 4, 0, TxtHi)}

NextRadio ==
    \/ \E f \in RadioFrames : TickRxFrame(Self, f)
    \/ TickClean(Self)
    \/ TickFaulty(Self)
    \/ BleSend(Self, 1, TxtHi, TriageChat)
    \/ RadioAdvance

SpecRadio == InitNode /\ [][NextRadio]_vars

(* tick(): one arm per state. *)
tick(s, t, in) ==
    CASE s.state = "Idle" -> runStateIdle(s, t, in)
      [] s.state = "Tx" -> runStateTx(s, in)
      [] s.state = "Rx" -> runStateRx(s, t, in)
      [] s.state = "TxDone" -> runStateTxDone(s)
      [] s.state = "RxDone" -> runStateRxDone(s, t, in)
      [] s.state = "TxTimeout" -> runStateTxTimeout(s)
      [] s.state = "RxTimeout" -> runStateRxTimeout(s, t, in)
      [] s.state = "RxError" -> runStateRxError(s)

(* What the radio can answer in a tick of SpecRadio. *)
RadioInputs ==
    {[Quiet EXCEPT !.frame = f] : f \in RadioFrames \cup {NoFrame}}
    \cup {[Quiet EXCEPT !.start_ok = FALSE], [Quiet EXCEPT !.done = FALSE],
          [Quiet EXCEPT !.read = "crc"], [Quiet EXCEPT !.read = "err"]}

(* The step is tick() with the answers in. *)
TickOf(n, in) ==
    /\ node'[n].state # node[n].state
    /\ node'[n] = tick(node[n], now, in)

TickedNode(n) == node'[n].state # node[n].state

QuietStates == {"Idle", "TxDone", "RxDone", "RxTimeout"}

(***************************************************************************)
(* The next state of the radio state machine                               *)
(***************************************************************************)
(* The transitions C23 lists: a set with the one next state, or no state   *)
(* where it lists no transition.  The done flag cannot rise when the start *)
(* was rejected.                                                           *)
ListedNext(st, in, queued) ==
    CASE st \in QuietStates -> {IF queued THEN "Tx" ELSE "Rx"}
      [] st = "Tx" -> IF in.start_ok THEN {IF in.done THEN "TxDone" ELSE "TxTimeout"} ELSE {}
      [] st = "Rx" -> {IF ~(in.start_ok /\ in.done) THEN "RxTimeout"
                       ELSE IF in.read = "ok" THEN "RxDone" ELSE "RxError"}
      [] OTHER -> {}

(* C23 as stated: every tick takes one of the listed transitions, Idle,    *)
(* TxDone, RxDone, RxTimeout to Tx or Rx by the queue, Tx to TxDone or     *)
(* TxTimeout, Rx to RxTimeout, RxDone or RxError, and there is no other.   *)
C23_RadioNextState ==
    [][\A n \in DOMAIN node : TickedNode(n) =>
          /\ \E in \in RadioInputs : TickOf(n, in)
          /\ \A in \in RadioInputs : TickOf(n, in) =>
                node'[n].state \in ListedNext(node[n].state, in, node'[n].tx_q_size > 0)]_vars

(* The listed transitions and the four that C23 leaves out. *)
RadioNext(st, in, queued) ==
    CASE st \in QuietStates -> IF queued THEN "Tx" ELSE "Rx"
      [] st = "Tx" -> IF ~in.start_ok THEN "Idle" ELSE IF in.done THEN "TxDone" ELSE "TxTimeout"
      [] st = "Rx" -> IF ~in.start_ok THEN "Idle"
                      ELSE IF ~in.done THEN "RxTimeout"
                      ELSE IF in.read = "ok" THEN "RxDone" ELSE "RxError"
      [] st \in {"TxTimeout", "RxError"} -> "Rx"

(* C23 amended: as stated, and besides Tx and Rx move to Idle when the     *)
(* radio rejects the start, and TxTimeout and RxError move to Rx; Tx is    *)
(* only entered with a frame queued; there is no other transition.         *)
C23_RadioNextStateAmended ==
    [][\A n \in DOMAIN node : TickedNode(n) =>
          /\ \E in \in RadioInputs : TickOf(n, in)
          /\ \A in \in RadioInputs : TickOf(n, in) =>
                node'[n].state = RadioNext(node[n].state, in, node'[n].tx_q_size > 0)
          /\ node[n].state = "Tx" => node[n].tx_q_size > 0]_vars

(* back in Rx after a transmission that failed, frames still queued *)
C23_Witness ==
    /\ Running(Self, "Rx")
    /\ env.faults > 0 /\ node[Self].error_count > 0
    /\ node[Self].tx_count > 0 /\ node[Self].tx_q_size > 0

(***************************************************************************)
(* Where the schedulers run                                                *)
(***************************************************************************)
SchedulerStates == {"Idle", "RxDone", "RxTimeout"}

TimersOf(s) ==
    <<s.heartbeat_seq, s.local_msg_seq, s.next_heartbeat_at_ms, s.next_test_data_at_ms,
      s.next_membership_print_at_ms>>

(* One run of the schedulers by the tick out of a scheduler state. *)
SchedulersOnce(n) ==
    /\ node'[n].heartbeat_seq =
          Add32(node[n].heartbeat_seq, IF TimerDue(node[n].next_heartbeat_at_ms) THEN 1 ELSE 0)
    /\ TimerDue(node[n].next_heartbeat_at_ms) =>
          /\ node'[n].next_heartbeat_at_ms \in {Add32(now, kHeartbeatIntervalMs + j) : j \in Jitters}
          /\ node'[n].state = "Tx"
    /\ TimerDue(node[n].next_test_data_at_ms)
          <=> node'[n].next_test_data_at_ms # node[n].next_test_data_at_ms
    /\ TimerDue(node[n].next_membership_print_at_ms)
          <=> node'[n].next_membership_print_at_ms # node[n].next_membership_print_at_ms
    /\ TimerDue(node[n].next_hop_at_ms) => node'[n].next_hop_at_ms = Add32(now, kHopIntervalMs)
    /\ \A i \in PendingSlots : ~TimedOut(node'[n].pending_data[i], now)
    /\ node'[n].tx_count = node[n].tx_count
    /\ node'[n].state = IF node'[n].tx_q_size > 0 THEN "Tx" ELSE "Rx"

(* No scheduler ran: nothing they own has moved, whatever is due. *)
SchedulersIdle(n) ==
    /\ TimersOf(node'[n]) = TimersOf(node[n])
    /\ node[n].state # "Rx" =>
          /\ node'[n].next_hop_at_ms = node[n].next_hop_at_ms
          /\ node'[n].pending_data = node[n].pending_data

(* C24: the tick out of Idle, RxDone or RxTimeout runs the schedulers once *)
(* (expiry, hop tick, heartbeat, test data, membership print) and then     *)
(* chooses the next state, Tx when they queued a frame; the tick out of    *)
(* Tx, Rx, TxDone, TxTimeout or RxError runs none of them; what they queue *)
(* is transmitted by a later tick in state Tx.                             *)
C24_SchedulerSites ==
    [][\A n \in DOMAIN node : TickedNode(n) =>
          IF node[n].state \in SchedulerStates THEN SchedulersOnce(n) ELSE SchedulersIdle(n)]_vars

(* back in Rx after a transmission that timed out, the heartbeat being due *)
(* all along: TxTimeout ran no scheduler                                   *)
C24_Witness ==
    /\ Running(Self, "Rx")
    /\ node[Self].error_count > 0 /\ node[Self].tx_count > 0
    /\ TimerDue(node[Self].next_heartbeat_at_ms)
    /\ node[Self].heartbeat_seq > 0

(***************************************************************************)
(* The error paths of the radio                                            *)
(***************************************************************************)
StartRejected(st, in) == st \in {"Tx", "Rx"} /\ ~in.start_ok

ErrorPath(st, in) == StartRejected(st, in) \/ st \in {"TxTimeout", "RxError"}

RecordsOf(s) == <<s.members, s.seen, s.pending_data, s.history, s.history_head, s.history_count>>

(* C25: error_count goes up by one when the radio rejects the start of a   *)
(* transmission or reception (next state Idle), in the tick out of         *)
(* TxTimeout and in the tick out of RxError (next state Rx, whatever is    *)
(* queued), the neighbor, seen, PendingData and history tables staying as  *)
(* they were; no other step changes error_count.                           *)
C25_ErrorPaths ==
    [][\A n \in DOMAIN node :
          IF TickedNode(n)
          THEN \A in \in RadioInputs : TickOf(n, in) =>
                  IF ErrorPath(node[n].state, in)
                  THEN /\ node'[n].error_count = Add32(node[n].error_count, 1)
                       /\ node'[n].state = IF StartRejected(node[n].state, in) THEN "Idle" ELSE "Rx"
                       /\ RecordsOf(node'[n]) = RecordsOf(node[n])
                  ELSE node'[n].error_count = node[n].error_count
          ELSE node'[n].error_count = node[n].error_count]_vars

(* in Rx with a frame queued and one error counted, no text having come    *)
(* over BLE: the tick out of TxTimeout or RxError went to Rx past the      *)
(* queue                                                                   *)
C25_Witness ==
    /\ Running(Self, "Rx")
    /\ node[Self].error_count = 1 /\ node[Self].tx_q_size > 0
    /\ env.sends = 0

(***************************************************************************)
(* SpecGossip: one node hearing heartbeats of node 1 whose gossip speaks   *)
(* about nodes 3 and 4 with newer, equal and older sequence numbers and    *)
(* with hop counts up to the end of the 8-bit range.                       *)
(***************************************************************************)
GossipGap == 4000
GossipEnd == 8000

GossipAdvance ==
    /\ now + GossipGap <= GossipEnd
    /\ now' = now + GossipGap
    /\ UNCHANGED <<node, adj, env>>

GossipHeard ==
    {GossipOf(3, 1, 0), GossipOf(3, 1, 3), GossipOf(3, 2, 255), GossipOf(3, 1, 255),
     GossipOf(3, 0, 0), GossipOf(4, 1, 1), GossipOf(1, 1, 0), GossipOf(Self, 5, 0)}

GossipFrames ==
    {HeartbeatFrame(1, q, HopSeedOf(1), NodeNameOf(1), 0, 0, <<g>>) :
        q \in {1, 2}, g \in GossipHeard}

NextGossip ==
    \/ \E f \in GossipFrames : TickRxFrame(Self, f)
    \/ TickClean(Self)
    \/ GossipAdvance

SpecGossip == InitNode /\ [][NextGossip]_vars

(* The table processGossipEntries starts from: the sender's own entry has  *)
(* been upserted by handleHeartbeat.                                       *)
GossipBefore(n) ==
    HeartbeatDirect(node[n], node'[n].rx_packet.from, node'[n].rx_packet.id,
                    node'[n].rx_packet.seed, node'[n].rx_packet.name,
                    node'[n].rx_packet.hops, now).members

(* The step handled a heartbeat of another node that carries one entry     *)
(* about a third node.                                                     *)
GossipMerged(n) ==
    /\ Received(n)
    /\ node'[n].rx_packet.t = "H"
    /\ node'[n].rx_packet.from # node[n].node_id
    /\ ~SeenHit(node[n], "H", node'[n].rx_packet.from, node'[n].rx_packet.id % U16, now)
    /\ Len(GossipParse(node'[n].rx_packet.gossip)) = 1
    /\ GossipParse(node'[n].rx_packet.gossip)[1].node_id # node[n].node_id % U16

(* The rule of the claim for the entry ge on the table before. *)
GossipWrites(before, ge, new_hops) ==
    \/ FindMember(before, ge.node_id) < 0
    \/ Lt32(before[FindMember(before, ge.node_id)].last_heartbeat_seq, ge.seq)
    \/ /\ before[FindMember(before, ge.node_id)].last_heartbeat_seq = ge.seq
       /\ before[FindMember(before, ge.node_id)].hops_away > new_hops

GossipWritten(after, ge, new_hops, via_node, t) ==
    /\ FindMember(after, ge.node_id) >= 0
    /\ after[FindMember(after, ge.node_id)].last_seen_ms = t
    /\ after[FindMember(after, ge.node_id)].last_heartbeat_seq = ge.seq
    /\ after[FindMember(after, ge.node_id)].hops_away = new_hops
    /\ after[FindMember(after, ge.node_id)].via_node = via_node

GossipRule(before, after, ge, new_hops, via_node, t) ==
    IF GossipWrites(before, ge, new_hops)
    THEN GossipWritten(after, ge, new_hops, via_node, t)
    ELSE after = before

(* C26: a received gossip entry (nid, name, seq, hops_away) about another  *)
(* node, with new_hops = hops_away + 1, is written iff the entry of nid is *)
(* absent, or older in seq, or equal in seq and farther than new_hops; a   *)
(* write sets last_seen = now, last_heartbeat_seq = seq, hops_away =       *)
(* new_hops and via_node = the sender; otherwise the entry is unchanged.   *)
C26_GossipMerge ==
    [][\A n \in DOMAIN node :
          GossipMerged(n) =>
              GossipRule(GossipBefore(n), node'[n].members,
                         GossipParse(node'[n].rx_packet.gossip)[1],
                         GossipParse(node'[n].rx_packet.gossip)[1].hops_away + 1,
                         node'[n].rx_packet.from, now)]_vars

(* The same rule holds for every entry whose hops_away + 1 fits 8 bits. *)
GossipMergeInRange ==
    [][\A n \in DOMAIN node :
          (GossipMerged(n) /\ GossipParse(node'[n].rx_packet.gossip)[1].hops_away < U8 - 1) =>
              GossipRule(GossipBefore(n), node'[n].members,
                         GossipParse(node'[n].rx_packet.gossip)[1],
                         GossipParse(node'[n].rx_packet.gossip)[1].hops_away + 1,
                         node'[n].rx_packet.from, now)]_vars

(***************************************************************************)
(* SpecOutbound: one node whose table is filled by two heartbeats of node  *)
(* 1 with up to twelve gossip entries each, heard up to 16 s apart, and    *)
(* which sends its own heartbeats and relays the heartbeat of node 3.      *)
(***************************************************************************)
OutboundGap == 8000
OutboundEnd == 16000

OutboundAdvance ==
    /\ now + OutboundGap <= OutboundEnd
    /\ now' = now + OutboundGap
    /\ UNCHANGED <<node, adj, env>>

GossipShort(id, seq) == [node_id |-> id, name |-> "n", seq |-> seq, hops_away |-> 1]

GossipRun(lo, hi, seq) == [k \in 1..(hi - lo + 1) |-> GossipShort(lo + k - 1, seq)]

OutboundFrames ==
    {HeartbeatFrame(1, 1, HopSeedOf(1), NodeNameOf(1), 0, 0, GossipRun(3, 14, 1)),
     HeartbeatFrame(1, 2, HopSeedOf(1), NodeNameOf(1), 0, 0, GossipRun(9, 20, 2)),
     HeartbeatFrame(1, 2, HopSeedOf(1), NodeNameOf(1), 0, 0,
                    <<GossipShort(5, 2), GossipShort(9, 2)>>),
     HeartbeatFrame(3, 1, HopSeedOf(3), NodeNameOf(3), 2, 0, <<>>)}

NextOutbound ==
    \/ \E f \in OutboundFrames : TickRxFrame(Self, f)
    \/ TickClean(Self)
    \/ OutboundAdvance

SpecOutbound == InitNode /\ [][NextOutbound]_vars

(* The step enqueued a heartbeat: the node's own or a relayed one. *)
HeartbeatQueued(n) ==
    /\ node'[n].tx_q_size = node[n].tx_q_size + 1
    /\ Enqueued(n).t = "H"

SlotOf(s, ge) == FindMember(s.members, ge.node_id)

(* The list is the node itself followed by entries of live neighbors. *)
GossipShape(s, t, list) ==
    /\ Len(list) >= 1 /\ Len(list) <= kMaxGossipEntries
    /\ list[1].node_id = s.node_id /\ list[1].hops_away = 0 /\ list[1].seq = s.heartbeat_seq
    /\ \A k \in 2..Len(list) :
          /\ SlotOf(s, list[k]) >= 0
          /\ IsLive(s.members[SlotOf(s, list[k])], t)
          /\ list[k] = GossipMember(s.members[SlotOf(s, list[k])])
    /\ \A j, k \in 1..Len(list) : list[j].node_id = list[k].node_id => j = k

(* Its neighbors come in ascending age and none left out is fresher. *)
GossipFreshest(s, t, list) ==
    /\ \A k \in 2..(Len(list) - 1) :
          Le32(MemberAge(s.members, t, SlotOf(s, list[k])),
               MemberAge(s.members, t, SlotOf(s, list[k + 1])))
    /\ \A i \in LiveSlots(s, t) :
          \/ \E k \in 2..Len(list) : SlotOf(s, list[k]) = i
          \/ \A k \in 2..Len(list) :
                Le32(MemberAge(s.members, t, SlotOf(s, list[k])), MemberAge(s.members, t, i))

(* The built list leaves a live neighbor out only when it is full. *)
GossipComplete(s, t, list) ==
    Len(list) = 1 + Min(Cardinality(LiveSlots(s, t)), kMaxGossipEntries - 1)

(* C27: every gossip list built for a heartbeat has 1..12 entries, starts  *)
(* with the node itself (hops_away 0, seq = its current heartbeat_seq),    *)
(* and continues with exactly the freshest live neighbors in ascending     *)
(* age, without a stale neighbor or a duplicate id; the text sent is a     *)
(* non-empty prefix of it.                                                 *)
C27_OutboundGossip ==
    [][\A n \in DOMAIN node :
          HeartbeatQueued(n) =>
              \A built \in {buildGossipEntries(node'[n], now, kMaxGossipEntries)} :
                  /\ GossipShape(node'[n], now, built)
                  /\ GossipFreshest(node'[n], now, built)
                  /\ GossipComplete(node'[n], now, built)
                  /\ Len(Enqueued(n).gossip) >= 1
                  /\ IsPrefix(Enqueued(n).gossip, built)]_vars

StaleSlots(s, t) == {i \in UsedMembers(s) : ~IsLive(s.members[i], t)}

(* The node's own heartbeat is the newest frame in the queue, built from a *)
(* table with more than eleven live neighbors; the list holds neighbors of *)
(* two ages and the text sent holds fewer entries than the list.           *)
C27_Witness ==
    /\ node[Self].tx_q_size > 0
    /\ QueuedFrames(node[Self])[node[Self].tx_q_size].t = "H"
    /\ QueuedFrames(node[Self])[node[Self].tx_q_size].from = Self
    /\ QueuedFrames(node[Self])[node[Self].tx_q_size].id = node[Self].heartbeat_seq
    /\ Cardinality(LiveSlots(node[Self], now)) > kMaxGossipEntries - 1
    /\ \E built \in {buildGossipEntries(node[Self], now, kMaxGossipEntries)} :
           /\ Len(built) = kMaxGossipEntries
           /\ IsPrefix(QueuedFrames(node[Self])[node[Self].tx_q_size].gossip, built)
           /\ Len(QueuedFrames(node[Self])[node[Self].tx_q_size].gossip) < Len(built)
           /\ MemberAge(node[Self].members, now, SlotOf(node[Self], built[2]))
                 # MemberAge(node[Self].members, now, SlotOf(node[Self], built[Len(built)]))

(* The same with six stale neighbors in the table. *)
OutboundStale ==
    /\ node[Self].tx_q_size > 0
    /\ QueuedFrames(node[Self])[node[Self].tx_q_size].t = "H"
    /\ QueuedFrames(node[Self])[node[Self].tx_q_size].id = node[Self].heartbeat_seq
    /\ Cardinality(LiveSlots(node[Self], now)) > kMaxGossipEntries - 1
    /\ Cardinality(StaleSlots(node[Self], now)) = 6

(***************************************************************************)
(* The sender's entry after a frame.                                       *)
(***************************************************************************)
(* The step read a HEARTBEAT, DATA or ACK of another node that no live     *)
(* seen entry matches.                                                     *)
FreshFrom(n) ==
    /\ Received(n)
    /\ node'[n].rx_packet.from # node[n].node_id
    /\ \/ /\ node'[n].rx_packet.t = "H"
          /\ ~SeenHit(node[n], "H", node'[n].rx_packet.from, node'[n].rx_packet.id % U16, now)
       \/ /\ node'[n].rx_packet.t \in {"D", "A"}
          /\ ~SeenHit(node[n], node'[n].rx_packet.t, node'[n].rx_packet.origin,
                      node'[n].rx_packet.id, now)

(* What the frame provides for the sender's entry: only a heartbeat        *)
(* carries a sequence number, a hop seed and a name.                       *)
ProvidedSeq(f) == IF f.t = "H" THEN f.id ELSE 0
ProvidedSeed(f) == IF f.t = "H" THEN f.seed ELSE 0
ProvidedName(f) == IF f.t = "H" THEN Trunc(f.name, 23) ELSE ""

(* A field is overwritten only by a value that is provided. *)
Overwritten(before, after, had, provided, none) ==
    IF provided # none THEN after = provided ELSE (had => after = before)

DirectEntry(before, after, f, t) ==
    /\ FindMember(after, f.from) >= 0
    /\ after[FindMember(after, f.from)].hops_away = 1
    /\ after[FindMember(after, f.from)].via_node = f.from
    /\ after[FindMember(after, f.from)].last_seen_ms = t
    /\ Overwritten(before[IF FindMember(before, f.from) >= 0 THEN FindMember(before, f.from) ELSE 0]
                       .last_heartbeat_seq,
                   after[FindMember(after, f.from)].last_heartbeat_seq,
                   FindMember(before, f.from) >= 0, ProvidedSeq(f), 0)
    /\ Overwritten(before[IF FindMember(before, f.from) >= 0 THEN FindMember(before, f.from) ELSE 0]
                       .hop_seed,
                   after[FindMember(after, f.from)].hop_seed,
                   FindMember(before, f.from) >= 0, ProvidedSeed(f), 0)
    /\ Overwritten(before[IF FindMember(before, f.from) >= 0 THEN FindMember(before, f.from) ELSE 0]
                       .name,
                   after[FindMember(after, f.from)].name,
                   FindMember(before, f.from) >= 0, ProvidedName(f), "")

(* C28: after a node processes a received non-duplicate frame whose from   *)
(* is a peer p other than itself, the entry of p has hops_away = 1,        *)
(* via_node = p and last_seen = now, and its last_heartbeat_seq, hop_seed  *)
(* and name are overwritten only by a non-zero / non-empty value of the    *)
(* frame.                                                                  *)
C28_DirectUpsert ==
    [][\A n \in DOMAIN node :
          FreshFrom(n) =>
              DirectEntry(node[n].members, node'[n].members, node'[n].rx_packet, now)]_vars

(* The same for the frames that come straight from their sender: DATA,     *)
(* ACK, and heartbeats with hops = 0.                                      *)
DirectUpsertUnrelayed ==
    [][\A n \in DOMAIN node :
          (FreshFrom(n) /\ (node'[n].rx_packet.t = "H" => node'[n].rx_packet.hops = 0)) =>
              DirectEntry(node[n].members, node'[n].members, node'[n].rx_packet, now)]_vars

(***************************************************************************)
(* SpecLifecycle: one node that hears of more peers than its table has     *)
(* slots: 13 through node 1, 13 through node 15, and node 30 later.        *)
(***************************************************************************)
LifecycleGap == 16000
MaxLifecycleHeard == 3

LifecycleFrames ==
    {HeartbeatFrame(1, 1, HopSeedOf(1), NodeNameOf(1), 0, 0, GossipRun(3, 14, 1)),
     HeartbeatFrame(15, 1, HopSeedOf(15), NodeNameOf(15), 0, 0, GossipRun(16, 27, 1)),
     HeartbeatFrame(30, 1, HopSeedOf(30), NodeNameOf(30), 0, 0, <<GossipShort(31, 1)>>),
     DataFrame(30, 30, 3, 1, 0, 0, TxtHi)}

LifecycleHear(f) ==
    /\ Running(Self, "Rx")
    /\ env.rx < MaxLifecycleHeard
    /\ env' = [env EXCEPT !.rx = env.rx + 1]
    /\ node' = [node EXCEPT ![Self] = runStateRx(@, now, [Quiet EXCEPT !.frame = f])]
    /\ UNCHANGED <<now, adj>>

LifecycleAdvance ==
    /\ now + LifecycleGap <= LifecycleGap
    /\ now' = now + LifecycleGap
    /\ UNCHANGED <<node, adj, env>>

NextLifecycle ==
    \/ \E f \in LifecycleFrames : LifecycleHear(f)
    \/ TickClean(Self)
    \/ LifecycleAdvance

SpecLifecycle == InitNode /\ [][NextLifecycle]_vars

(* The peers a frame speaks of as its sender or in its gossip, and those   *)
(* it makes the node learn (the origin of a DATA or ACK as well).          *)
PeersOf(f) ==
    {f.from} \cup (IF f.t = "H" THEN {GossipParse(f.gossip)[k].node_id :
                                         k \in 1..Len(GossipParse(f.gossip))}
                   ELSE {})

LearnedOf(f) == PeersOf(f) \cup (IF f.t \in {"D", "A"} THEN {f.origin} ELSE {})

Unknown(s, ids) == {p \in ids : p # s.node_id /\ FindMember(s.members, p) < 0}

IsActive(s, p, t) == FindMember(s.members, p) >= 0 /\ IsLive(s.members[FindMember(s.members, p)], t)

(* Fewer than 24 peers are live whenever the frame brings a peer without   *)
(* an entry.                                                               *)
RoomAmongLive(s, f, t) ==
    Cardinality(LiveSlots(s, t)) + Cardinality(Unknown(s, LearnedOf(f))) <= kMaxMembers

(* C29: whenever a node processes a non-duplicate frame from, or a gossip  *)
(* entry about, a peer other than itself that has no entry, and fewer than *)
(* 24 peers are live, the peer becomes an active (used and live) member:   *)
(* entries aged past the membership timeout do not keep new peers out.     *)
C29_NeighborLifecycle ==
    [][\A n \in DOMAIN node :
          (FreshFrom(n) /\ RoomAmongLive(node[n], node'[n].rx_packet, now)) =>
              \A p \in Unknown(node[n], PeersOf(node'[n].rx_packet)) :
                  IsActive(node'[n], p, now)]_vars

(* The same holds while the table has unused slots for the new peers. *)
LifecycleWithFreeSlots ==
    [][\A n \in DOMAIN node :
          (/\ FreshFrom(n)
           /\ Cardinality(UsedMembers(node[n]))
                 + Cardinality(Unknown(node[n], LearnedOf(node'[n].rx_packet))) <= kMaxMembers) =>
              \A p \in Unknown(node[n], PeersOf(node'[n].rx_packet)) :
                  IsActive(node'[n], p, now)]_vars

(***************************************************************************)
(* SpecHop: one node that follows the heartbeats of node 1, learns of it   *)
(* by a DATA frame, loses it by age, and whose radio may refuse one        *)
(* setFrequency.                                                           *)
(***************************************************************************)
HopGap == 5000
HopEnd == 20000

HopAdvance ==
    /\ now + HopGap <= HopEnd
    /\ now' = now + HopGap
    /\ UNCHANGED <<node, adj, env>>

HopFrames ==
    {HeartbeatFrame(1, q, HopSeedOf(1), NodeNameOf(1), 0, 0, <<>>) : q \in {1, 2}}
    \cup {DataFrame(1, 1, 3, 1, 0, 0, TxtHi)}

Refused == [Quiet EXCEPT !.rc_ok = FALSE]

(* A frame is read and setFrequency fails in its handler. *)
HopHearRefused(f) ==
    /\ Running(Self, "Rx")
    /\ env.rx < MaxRx /\ env.faults < MaxFaults
    /\ env' = [env EXCEPT !.rx = env.rx + 1, !.faults = env.faults + 1]
    /\ node' = [node EXCEPT ![Self] = runStateRx(@, now, [Refused EXCEPT !.frame = f])]
    /\ UNCHANGED <<now, adj>>

(* The schedulers run and setFrequency fails in them. *)
HopTickRefused ==
    /\ Running(Self, "RxTimeout")
    /\ Fault
    /\ node' = [node EXCEPT ![Self] = runStateRxTimeout(@, now, Refused)]
    /\ UNCHANGED <<now, adj>>

NextHop ==
    \/ \E f \in HopFrames : TickRxFrame(Self, f)
    \/ \E f \in HopFrames : HopHearRefused(f)
    \/ HopTickRefused
    \/ TickClean(Self)
    \/ HopAdvance

SpecHop == InitNode /\ [][NextHop]_vars

(* The node with the leader a re-evaluation at time t elects. *)
Elected(s, t) == [s EXCEPT !.hop_leader_id = selectHopLeader(s, t)]

ElectedSeq(s, t) == LeaderSeq(Elected(s, t), LeaderEntry(Elected(s, t)))

ElectedSeed(s, t) == LeaderSeed(Elected(s, t), LeaderEntry(Elected(s, t)))

(* What the claim says of a re-evaluation that starts from s at time t. *)
Reevaluated(s, t, force, after) ==
    IF ~force /\ ElectedSeq(s, t) = s.last_hop_seq
    THEN /\ after.current_hop_channel = s.current_hop_channel
         /\ after.last_hop_seq = s.last_hop_seq
    ELSE /\ after.current_hop_channel
               = computeHopChannelIndex(ElectedSeed(s, t), ElectedSeq(s, t))
         /\ after.last_hop_seq = ElectedSeq(s, t)

HopDue(s, t) == ~Lt32(t, s.next_hop_at_ms)

(* The step ran the schedulers and they sent a heartbeat. *)
Beat(n) == node[n].state \in SchedulerStates /\ node'[n].heartbeat_seq # node[n].heartbeat_seq

(* The leader sendHeartbeat finds stored: the one the unforced             *)
(* re-evaluation of the same scheduler run elected, if it was due.         *)
LeaderAtBeat(s, t) == IF HopDue(s, t) THEN selectHopLeader(s, t) ELSE s.hop_leader_id

(* The forced re-evaluations: a heartbeat was handled, or the node's own   *)
(* heartbeat was sent while it is the leader.                              *)
ForcedHop(n) ==
    \/ FreshFrom(n) /\ node'[n].rx_packet.t = "H"
    \/ Beat(n) /\ LeaderAtBeat(node[n], now) = node[n].node_id % U16

(* The unforced one of a scheduler run with the hop interval elapsed and   *)
(* no forced one after it.                                                 *)
UnforcedHop(n) ==
    /\ node[n].state \in SchedulerStates
    /\ node'[n].state # node[n].state
    /\ HopDue(node[n], now)
    /\ ~(Beat(n) /\ LeaderAtBeat(node[n], now) = node[n].node_id % U16)

(* C30: an unforced re-evaluation with the hop interval elapsed and        *)
(* leader_seq equal to the last applied seq leaves the channel and the     *)
(* last applied seq unchanged; every other re-evaluation (forced, or       *)
(* leader_seq differs) sets the channel channel_index(leader_seed,         *)
(* leader_seq), and afterwards current_hop_channel is that index and       *)
(* last_hop_seq = leader_seq.                                              *)
C30_HopReevaluation ==
    [][\A n \in DOMAIN node :
          /\ ForcedHop(n) => Reevaluated(node'[n], now, TRUE, node'[n])
          /\ UnforcedHop(n) => Reevaluated(node[n], now, FALSE, node'[n])]_vars

(* The same while setFrequency has not failed. *)
HopReevaluationTuned ==
    [][\A n \in DOMAIN node :
          env'.faults = 0 =>
              /\ ForcedHop(n) => Reevaluated(node'[n], now, TRUE, node'[n])
              /\ UnforcedHop(n) => Reevaluated(node[n], now, FALSE, node'[n])]_vars

(***************************************************************************)
(* SpecSuppress: one node that hears more keys than the seen table holds:  *)
(* DATA 1..MaxSuppressEarly of node 1 at time 0, the rest up to            *)
(* MaxSuppressFill one gap later, then silence while the entries age, and  *)
(* once, at any moment, a second copy of DATA SuppressAgain.               *)
(***************************************************************************)
SuppressGap == 8000
SuppressEnd == 24000
MaxSuppressEarly == 40
MaxSuppressFill == 66
SuppressAgain == 50

SuppressFrame(id) == DataFrame(1, 1, 3, id, 0, 0, TxtHi)

SuppressFill ==
    /\ Running(Self, "Rx")
    /\ env.fill < MaxSuppressFill
    /\ (env.fill >= MaxSuppressEarly) => now >= SuppressGap
    /\ env' = [env EXCEPT !.fill = env.fill + 1]
    /\ node' = [node EXCEPT ![Self] =
                   runStateRx(@, now, [Quiet EXCEPT !.frame = SuppressFrame(env.fill + 1)])]
    /\ UNCHANGED <<now, adj>>

SuppressReplay ==
    /\ Running(Self, "Rx")
    /\ env.fill >= MaxSuppressFill
    /\ env.replays = 0
    /\ env' = [env EXCEPT !.replays = 1]
    /\ node' = [node EXCEPT ![Self] =
                   runStateRx(@, now, [Quiet EXCEPT !.frame = SuppressFrame(SuppressAgain)])]
    /\ UNCHANGED <<now, adj>>

SuppressAdvance ==
    /\ Running(Self, "Rx")
    /\ env.fill \in {MaxSuppressEarly, MaxSuppressFill}
    /\ now + SuppressGap <= SuppressEnd
    /\ now' = now + SuppressGap
    /\ UNCHANGED <<node, adj, env>>

NextSuppress ==
    \/ SuppressFill
    \/ SuppressReplay
    \/ TickTx(Self) \/ TickTxDone(Self) \/ TickRxDone(Self)
    \/ SuppressAdvance

SpecSuppress == InitNode /\ [][NextSuppress]_vars

(* The entry is used and not older than the membership timeout. *)
SeenLive(e, t) == e.used /\ Le32(Sub32(t, e.seen_at_ms), kMembershipTimeoutMs)

SameKey(e, type, origin, msg_id) == e.type = type /\ e.origin = origin /\ e.msg_id = msg_id

(* A used entry with the three keys and age <= MembershipTimeout exists. *)
SeenKnown(seen, type, origin, msg_id, t) ==
    \E i \in SeenSlots : SeenLive(seen[i], t) /\ SameKey(seen[i], type, origin, msg_id)

SeenEntryOf(type, origin, msg_id, t) ==
    [type |-> type, origin |-> origin, msg_id |-> msg_id, seen_at_ms |-> t, used |-> TRUE]

(* The slot the claim lets an insertion take: a free or aged-out one, or,  *)
(* when all hold live entries, the one with the smallest seen_at.          *)
SeenVictim(seen, j, t) ==
    IF \E i \in SeenSlots : ~SeenLive(seen[i], t)
    THEN ~SeenLive(seen[j], t)
    ELSE \A i \in SeenSlots : Le32(seen[j].seen_at_ms, seen[i].seen_at_ms)

(* An aged-out entry may be released; nothing else differs. *)
SeenReleased(before, after, t) ==
    \/ after = before
    \/ /\ before.used /\ ~SeenLive(before, t)
       /\ after = [before EXCEPT !.used = FALSE]

(* The insertion of a key that is not known, entries released or not. *)
SeenInserted(seen, after, type, origin, msg_id, t) ==
    \E j \in SeenSlots :
        /\ after[j] = SeenEntryOf(type, origin, msg_id, t)
        /\ SeenVictim(seen, j, t)
        /\ \A i \in SeenSlots \ {j} : SeenReleased(seen[i], after[i], t)

(* The keys the operation is tried with in every reachable state: DATA of  *)
(* node 1 heard early, heard late, heard twice, never heard, and the       *)
(* node's own first heartbeat.                                             *)
SuppressKeys ==
    {<<"D", 1, id>> : id \in {1, MaxSuppressEarly, SuppressAgain, MaxSuppressFill,
                              MaxSuppressFill + 1}}
    \cup {<<"H", Self, 1>>}

(* C31: see(type, origin, msg_id) returns true iff a used entry with the   *)
(* three keys and age <= MembershipTimeout exists, and then modifies no    *)
(* entry; otherwise it returns false and inserts (type, origin, msg_id,    *)
(* now) into a free or aged-out slot, or over the entry with the smallest  *)
(* seen_at when all 64 slots hold live entries; the table never holds two *)
(* live entries with the same key.                                         *)
C31_SeeOperation ==
    /\ \A key \in SuppressKeys :
          /\ SeenHit(node[Self], key[1], key[2], key[3], now)
                <=> SeenKnown(node[Self].seen, key[1], key[2], key[3], now)
          /\ IF SeenKnown(node[Self].seen, key[1], key[2], key[3], now)
             THEN hasSeenAndRemember(node[Self], key[1], key[2], key[3], now).seen
                     = node[Self].seen
             ELSE SeenInserted(node[Self].seen,
                               hasSeenAndRemember(node[Self], key[1], key[2], key[3], now).seen,
                               key[1], key[2], key[3], now)
    /\ \A i, j \in SeenSlots :
          (/\ SeenLive(node[Self].seen[i], now) /\ SeenLive(node[Self].seen[j], now)
           /\ SameKey(node[Self].seen[i], node[Self].seen[j].type, node[Self].seen[j].origin,
                      node[Self].seen[j].msg_id)) => i = j

(* C31 as the code has it: a call that finds the key leaves every live     *)
(* entry as it is (seen_at is not refreshed) and releases the aged-out     *)
(* entries it passes before the match.                                     *)
C31_SeeOperationAmended ==
    /\ \A key \in SuppressKeys :
          /\ SeenHit(node[Self], key[1], key[2], key[3], now)
                <=> SeenKnown(node[Self].seen, key[1], key[2], key[3], now)
          /\ \A after \in {hasSeenAndRemember(node[Self], key[1], key[2], key[3], now).seen} :
                IF SeenKnown(node[Self].seen, key[1], key[2], key[3], now)
                THEN \A i \in SeenSlots : SeenReleased(node[Self].seen[i], after[i], now)
                ELSE SeenInserted(node[Self].seen, after, key[1], key[2], key[3], now)
    /\ \A i, j \in SeenSlots :
          (/\ SeenLive(node[Self].seen[i], now) /\ SeenLive(node[Self].seen[j], now)
           /\ SameKey(node[Self].seen[i], node[Self].seen[j].type, node[Self].seen[j].origin,
                      node[Self].seen[j].msg_id)) => i = j

(* The second copy of DATA SuppressAgain was read two gaps after the first *)
(* keys: its entry is still live and unrefreshed, entries heard at time 0  *)
(* were released on the way to it, and the keys heard last had replaced    *)
(* the oldest entries of a full table.                                     *)
C31_Witness ==
    /\ env.replays = 1
    /\ now = 2 * SuppressGap
    /\ node[Self].rx_packet.id = SuppressAgain
    /\ \E j \in SeenSlots :
          /\ SeenLive(node[Self].seen[j], now)
          /\ SameKey(node[Self].seen[j], "D", 1, SuppressAgain)
          /\ node[Self].seen[j].seen_at_ms = SuppressGap
          /\ \E i \in 0..(j - 1) : ~node[Self].seen[i].used /\ node[Self].seen[i].seen_at_ms = 0
    /\ \E i \in SeenSlots :
          /\ SameKey(node[Self].seen[i], "D", 1, MaxSuppressFill)
          /\ \E k \in SeenSlots : k > i /\ node[Self].seen[k].seen_at_ms = 0


(***************************************************************************)
(* SpecEcho: one node hearing heartbeats of node 1 (and one that claims to *)
(* come from the node itself) up to three times, sixteen seconds passing   *)
(* in two steps.  env.log lists the (from, seq) of the heartbeats the node *)
(* has relayed so far.                                                     *)
(***************************************************************************)
EchoGap == 8000
EchoEnd == 16000
MaxEchoHeard == 3

EchoFrames ==
    {HeartbeatFrame(1, 1, HopSeedOf(1), NodeNameOf(1), th[1], th[2], g) :
        th \in {<<0, 0>>, <<4, 0>>, <<1, 255>>}, g \in {<<>>, <<GossipShort(3, 5)>>}}
    \cup {HeartbeatFrame(1, 2, HopSeedOf(1), NodeNameOf(1), 4, 0, <<>>),
          HeartbeatFrame(Self, 1, HopSeedOf(Self), NodeNameOf(Self), 4, 1, <<>>)}

EchoHear(f) ==
    /\ Running(Self, "Rx")
    /\ env.rx < MaxEchoHeard
    /\ node' = [node EXCEPT ![Self] = runStateRx(@, now, [Quiet EXCEPT !.frame = f])]
    /\ env' = [env EXCEPT !.rx = @ + 1,
                          !.log = IF node'[Self].tx_q_size > node[Self].tx_q_size
                                  THEN Append(@, <<f.from, f.id>>)
                                  ELSE @]
    /\ UNCHANGED <<now, adj>>

EchoAdvance ==
    /\ now + EchoGap <= EchoEnd
    /\ now' = now + EchoGap
    /\ UNCHANGED <<node, adj, env>>

NextEcho ==
    \/ \E f \in EchoFrames : EchoHear(f)
    \/ TickClean(Self)
    \/ EchoAdvance

SpecEcho == InitNode /\ [][NextEcho]_vars

(* The step read a heartbeat and enqueued a relay of it. *)
HeartbeatRelayed(n) == Relayed(n) /\ node'[n].rx_packet.t = "H"

(* The relayed frame is the received one but for ttl, hops and gossip, and *)
(* its gossip is the node's own list, the node first.                      *)
EchoOf(n, f) ==
    /\ f.ttl > 0
    /\ f.from # node[n].node_id
    /\ Enqueued(n).from = f.from
    /\ Enqueued(n).id = f.id
    /\ Enqueued(n).seed = f.seed
    /\ Enqueued(n).name = f.name
    /\ Enqueued(n).ttl = f.ttl - 1
    /\ Enqueued(n).hops = f.hops + 1
    /\ \A built \in {GossipWire(node'[n], now)} :
          /\ Enqueued(n).gossip = built
          /\ Len(built) >= 1
          /\ built[1].node_id = node[n].node_id
          /\ built[1].hops_away = 0

(* C32: a node relays a received heartbeat at most once per (from, seq)    *)
(* and only if ttl > 0; the relayed frame keeps from, seq, hop seed and    *)
(* name, carries ttl - 1 and hops + 1 and the relaying node's own gossip   *)
(* (self first, hops 0); a heartbeat with from = self is never relayed.    *)
C32_HeartbeatRelay ==
    [][\A n \in DOMAIN node :
          HeartbeatRelayed(n) =>
              /\ \A k \in 1..Len(env.log) :
                    env.log[k] # <<node'[n].rx_packet.from, node'[n].rx_packet.id>>
              /\ EchoOf(n, node'[n].rx_packet)]_vars

(* C32 with "at most once" read as "not while a live entry of the          *)
(* duplicate table has the key (HEARTBEAT, from, seq mod 2^16)".           *)
C32_HeartbeatRelayAmended ==
    [][\A n \in DOMAIN node :
          HeartbeatRelayed(n) =>
              /\ ~SeenHit(node[n], "H", node'[n].rx_packet.from,
                          node'[n].rx_packet.id % U16, now)
              /\ EchoOf(n, node'[n].rx_packet)]_vars

(* The heartbeat 1 of node 1 has been relayed twice, the second time with  *)
(* a gossip list that names node 1.                                        *)
C32_Witness ==
    /\ Len(env.log) = 2
    /\ env.log[1] = <<1, 1>>
    /\ env.log[2] = <<1, 1>>
    /\ node[Self].tx_q_size >= 1
    /\ \E i \in DOMAIN node[Self].tx_queue :
          /\ node[Self].tx_queue[i].payload.t = "H"
          /\ node[Self].tx_queue[i].payload.from = 1
          /\ node[Self].tx_queue[i].payload.hops = 256
          /\ Len(node[Self].tx_queue[i].payload.gossip) >= 2


(***************************************************************************)
(* SpecAck: one node that has sent at most one DATA to node 3 and hears    *)
(* the ACKs node 3 and node 5 send for DATA of nodes 1, 4 and of the node  *)
(* itself.  env.log lists the ACKs heard so far as                         *)
(* <<origin, dst, msg_id, time>>.                                          *)
(***************************************************************************)
AckGap == 8000
AckEnd == 16000

AckFrames ==
    {AckFrame(3, 3, 1, 1, kDefaultTtl, 0),
     AckFrame(3, 3, 4, 1, kDefaultTtl, 0),
     AckFrame(3, 3, 1, 2, kDefaultTtl, 0),
     AckFrame(3, 3, Self, 1, kDefaultTtl, 0),
     AckFrame(5, 5, 1, 1, kDefaultTtl, 0),
     AckFrame(5, 5, Self, 1, kDefaultTtl, 0)}

AckBle == env.rx = 0 /\ BleSend(Self, 3, TxtHi, TriageChat)

AckHear(f) ==
    /\ Running(Self, "Rx")
    /\ env.rx < MaxRx
    /\ env' = [env EXCEPT !.rx = @ + 1, !.log = Append(@, <<f.origin, f.dst, f.id, now>>)]
    /\ node' = [node EXCEPT ![Self] = runStateRx(@, now, [Quiet EXCEPT !.frame = f])]
    /\ UNCHANGED <<now, adj>>

AckAdvance ==
    /\ now + AckGap <= AckEnd
    /\ now' = now + AckGap
    /\ UNCHANGED <<node, adj, env>>

NextAck ==
    \/ AckBle
    \/ \E f \in AckFrames : AckHear(f)
    \/ TickClean(Self)
    \/ AckAdvance

SpecAck == InitNode /\ [][NextAck]_vars

(* The step read an ACK, and no ACK for the same DATA message (the same    *)
(* acknowledging node, data originator and msg_id) was heard within        *)
(* kMembershipTimeoutMs.                                                   *)
AckFirstForData(n) ==
    /\ Received(n)
    /\ node'[n].rx_packet.t = "A"
    /\ \A k \in 1..Len(env.log) :
          \/ env.log[k][1] # node'[n].rx_packet.origin
          \/ env.log[k][2] # node'[n].rx_packet.dst
          \/ env.log[k][3] # node'[n].rx_packet.id
          \/ now - env.log[k][4] > kMembershipTimeoutMs

(* The ACK just read was relayed, or applied to PendingData. *)
AckProcessed(n) ==
    IF node'[n].rx_packet.dst = n
    THEN /\ PendingCleared(node[n], node'[n], node'[n].rx_packet.id)
         /\ AwaitingAck(node'[n], node'[n].rx_packet.id) = {}
    ELSE node'[n].rx_packet.ttl > 0 =>
            /\ Relayed(n)
            /\ Enqueued(n) = AckRelayOf(n, node'[n].rx_packet.hops + 1)

(* C33: the ACK for one DATA message is processed (relayed, or applied to  *)
(* PendingData) even though the ACK for another DATA message, one that     *)
(* differs in data originator or msg_id, was seen within the timeout.      *)
C33_AckPerMessage ==
    [][\A n \in DOMAIN node : AckFirstForData(n) => AckProcessed(n)]_vars

(* The same when no ACK of the same acknowledging node with the same       *)
(* msg_id was heard within the timeout, whatever DATA it was for.          *)
AckFirstOfNode(n) ==
    /\ Received(n)
    /\ node'[n].rx_packet.t = "A"
    /\ \A k \in 1..Len(env.log) :
          \/ env.log[k][1] # node'[n].rx_packet.origin
          \/ env.log[k][3] # node'[n].rx_packet.id
          \/ now - env.log[k][4] > kMembershipTimeoutMs

AckPerAcknowledger ==
    [][\A n \in DOMAIN node : AckFirstOfNode(n) => AckProcessed(n)]_vars

(* The node waits for the ACK of its DATA 1 after it has heard both the    *)
(* ACK node 3 sent to node 1 for msg_id 1 and the one node 3 sent to it.   *)
AckLost ==
    /\ Len(env.log) = 2
    /\ env.log[1] = <<3, 1, 1, 0>>
    /\ env.log[2] = <<3, Self, 1, 0>>
    /\ AwaitingAck(node[Self], 1) # {}


(* The step cleared the PendingData entry of slot i as acknowledged. *)
ClearedAsAcked(n, i) ==
    /\ node[n].pending_data[i].used
    /\ ~node[n].pending_data[i].acked
    /\ node'[n].pending_data[i].acked
    /\ ~node'[n].pending_data[i].used

(* C34: a PendingData entry (msg_id, dst) is cleared as acknowledged only  *)
(* by an ACK addressed to this node whose msg_id is the entry's and whose  *)
(* origin is the entry's dst.                                              *)
C34_AckClearsOwn ==
    [][\A n \in DOMAIN node : \A i \in PendingSlots :
          ClearedAsAcked(n, i) =>
              /\ Received(n)
              /\ node'[n].rx_packet.t = "A"
              /\ node'[n].rx_packet.dst = n
              /\ node'[n].rx_packet.id = node[n].pending_data[i].msg_id
              /\ node'[n].rx_packet.origin = node[n].pending_data[i].dst]_vars

(* The same without the condition on the origin of the ACK. *)
AckClearsByMsgId ==
    [][\A n \in DOMAIN node : \A i \in PendingSlots :
          ClearedAsAcked(n, i) =>
              /\ Received(n)
              /\ node'[n].rx_packet.t = "A"
              /\ node'[n].rx_packet.dst = n
              /\ node'[n].rx_packet.id = node[n].pending_data[i].msg_id]_vars

(* The entry for the DATA sent to node 3 is acknowledged, and the only ACK *)
(* heard was node 5's.                                                     *)
AckOfStranger ==
    /\ Len(env.log) = 1
    /\ env.log[1][1] = 5
    /\ \E i \in PendingSlots :
          /\ node[Self].pending_data[i].acked
          /\ node[Self].pending_data[i].dst = 3


(* C35: the last_heartbeat_seq recorded for a neighbor never decreases,    *)
(* whatever the order in which heartbeats, gossip entries and DATA/ACK     *)
(* frames about it are processed.                                          *)
C35_SeqNeverDecreases ==
    [][\A n \in DOMAIN node : \A i \in UsedMembers(node[n]) :
          ~Lt32(node'[n].members[i].last_heartbeat_seq,
                node[n].members[i].last_heartbeat_seq)]_vars

(* The same for the entries of the nodes other than the sender of the      *)
(* heartbeat just read: those are written by processGossipEntries alone.   *)
SeqOfOthersNeverDecreases ==
    [][\A n \in DOMAIN node : \A i \in UsedMembers(node[n]) :
          (Received(n) /\ node'[n].rx_packet.from = node[n].members[i].node_id)
          \/ ~Lt32(node'[n].members[i].last_heartbeat_seq,
                   node[n].members[i].last_heartbeat_seq)]_vars

(* Heartbeat 2 of node 1 was relayed before heartbeat 1, and the entry of  *)
(* node 1 holds seq 1.                                                     *)
SeqWentBack ==
    /\ Len(env.log) = 2
    /\ env.log[1] = <<1, 2>>
    /\ env.log[2] = <<1, 1>>
    /\ \E i \in UsedMembers(node[Self]) :
          /\ node[Self].members[i].node_id = 1
          /\ node[Self].members[i].last_heartbeat_seq = 1


(***************************************************************************)
(* SpecReject: one node given texts over BLE, some of them empty, faster   *)
(* than its radio sends, all within one millisecond.                       *)
(***************************************************************************)
RejectTexts == {TxtHi, <<>>}

(* An empty text comes first or after a text that was rejected. *)
RejectSend(text) ==
    /\ Len(text) = 0 => (env.sends = 0 \/ ~env.ble_result)
    /\ BleSendMany(Self, 1, text, TriageChat)

NextReject ==
    \/ \E text \in RejectTexts : RejectSend(text)
    \/ TickTx(Self) \/ TickTxDone(Self) \/ TickRxNothing(Self) \/ TickRxTimeout(Self)

SpecReject == InitNode /\ [][NextReject]_vars

(* The step was a queueBleMessage call that returned false. *)
BleRejected == env'.sends # env.sends /\ ~env'.ble_result

(* C36: whenever queueBleMessage returns false, the tx queue, PendingData  *)
(* table, message history, seen table and local msg_id counter are as      *)
(* before the call.                                                        *)
C36_RejectedSend ==
    [][\A n \in DOMAIN node :
          BleRejected =>
              /\ QueueFields(node'[n]) = QueueFields(node[n])
              /\ node'[n].pending_data = node[n].pending_data
              /\ HistoryFields(node'[n]) = HistoryFields(node[n])
              /\ node'[n].seen = node[n].seen
              /\ node'[n].local_msg_seq = node[n].local_msg_seq]_vars

(* The same for the tx queue, PendingData and the history alone; the whole *)
(* node is unchanged when the queue had room (the text was empty).         *)
RejectedSendQueues ==
    [][\A n \in DOMAIN node :
          BleRejected =>
              /\ QueueFields(node'[n]) = QueueFields(node[n])
              /\ node'[n].pending_data = node[n].pending_data
              /\ HistoryFields(node'[n]) = HistoryFields(node[n])
              /\ node[n].tx_q_size < kMaxTxQueue => node'[n] = node[n]]_vars

(* A text was rejected at a full queue: thirteen ids are used up, twelve   *)
(* frames are queued.                                                      *)
RejectedAtFullQueue ==
    /\ ~env.ble_result
    /\ node[Self].tx_q_size = kMaxTxQueue
    /\ node[Self].local_msg_seq = kMaxTxQueue + 1
    /\ HasSeen(node[Self], "D", Self, kMaxTxQueue + 1)


(***************************************************************************)
(* SpecProgress: one node whose radio fails once (a rejected start, a      *)
(* transmission that does not complete, a packet with a bad CRC), given    *)
(* one text over BLE at any moment, hearing up to two frames.  env.x holds *)
(* the node as it was at a moment when it listened with a frame queued     *)
(* (env.built tells that the moment was taken).                            *)
(***************************************************************************)
ProgressGap == 2000
ProgressEnd == 4000

ProgressFrames == {DataFrame(1, 1, 3, 1, kDefaultTtl, 0, TxtHi)}

ProgressAdvance ==
    /\ now + ProgressGap <= ProgressEnd
    /\ now' = now + ProgressGap
    /\ UNCHANGED <<node, adj, env>>

ProgressMark ==
    /\ ~env.built
    /\ node[Self].state = "Rx"
    /\ node[Self].tx_q_size > 0
    /\ env' = [env EXCEPT !.x = node[Self], !.built = TRUE]
    /\ UNCHANGED <<node, now, adj>>

NextProgress ==
    \/ BleSend(Self, 1, TxtHi, TriageChat)
    \/ \E f \in ProgressFrames : TickRxFrame(Self, f)
    \/ TickClean(Self)
    \/ TickFaulty(Self)
    \/ ProgressAdvance
    \/ ProgressMark

SpecProgress == InitNode /\ [][NextProgress]_vars

(* The loop calls tick() for ever, and the clock runs. *)
SpecProgressFair ==
    /\ SpecProgress
    /\ []<><<Ticked>>_vars
    /\ WF_vars(ProgressAdvance)

(* The node is again as it was at the marked moment, the count of errors   *)
(* aside: it listens, and the frames that were queued then are all still   *)
(* queued.  Nothing the node does depends on error_count, so that what it  *)
(* did since the marked moment it can do again, for ever.                  *)
BackWhereItWas ==
    /\ env.built
    /\ node[Self].error_count # env.x.error_count
    /\ [node[Self] EXCEPT !.error_count = env.x.error_count] = env.x

(* C37: from every reachable state the node reaches Rx after a bounded     *)
(* number of ticks, and every frame that was enqueued is eventually        *)
(* dequeued and handed to the radio, whenever every radio wait ends: the   *)
(* node never comes back, the queued frames untouched, to a state it has   *)
(* listened in before.                                                     *)
C37_RadioProgress == ~BackWhereItWas

(* With the radio failing a bounded number of times: the node listens      *)
(* again and again, and a queued frame is handed to the radio.             *)
RadioListens == []<>(node[Self].state = "Rx")

RadioSendsQueued ==
    \A k \in 0..(kMaxTxQueue + 1) :
        (node[Self].tx_q_size > 0 /\ node[Self].tx_count = k) ~> (node[Self].tx_count > k)


(***************************************************************************)
(* SpecIsr: the main loop and the DIO1 interrupt handler of one node, the  *)
(* Tx and Rx states taken statement by statement: the done-flag is         *)
(* cleared, the operation is started, the wait ends (by the flag or by its *)
(* deadline), the flag is read once more and the state is left.  env.x is  *)
(* the radio and the position in runStateTx/runStateRx: op numbers the     *)
(* operations started so far, active tells that the last one has not been  *)
(* ended by standby() or finishTransmit(), set_by is the operation whose   *)
(* completion ran the handler last, late tells that a completion came      *)
(* after its wait had been given up.                                       *)
(***************************************************************************)
MaxIsrOps == 4

onDio1Rise(s) == [s EXCEPT !.operation_done = TRUE]

(* The done-flag is left as it is. *)
ClearDone_Skip(s) == s

(* operation_done_ = false, before startTransmit and startReceive. *)
ClearDone(s) == [s EXCEPT !.operation_done = FALSE]

Radio0 == [pc |-> "tick", op |-> 0, active |-> FALSE, set_by |-> 0, late |-> FALSE]

InitIsr ==
    /\ node = [n \in {Self} |-> begin(NodeObject(n), 0)]
    /\ now = 0
    /\ adj = {}
    /\ env = [Env0 EXCEPT !.x = Radio0]

IsrFrames == {NoFrame, DataFrame(1, 1, 3, 1, kDefaultTtl, 0, TxtHi)}

(* runStateTx with nothing queued returns before it touches the flag. *)
IsrClear ==
    /\ env.x.pc = "tick"
    /\ node[Self].state \in {"Tx", "Rx"}
    /\ IF node[Self].state = "Tx" /\ node[Self].tx_q_size = 0
       THEN /\ node' = [node EXCEPT ![Self] = runStateTx(@, Quiet)]
            /\ UNCHANGED env
       ELSE /\ node' = [node EXCEPT ![Self] = ClearDone(@)]
            /\ env' = [env EXCEPT !.x.pc = "cleared"]
    /\ UNCHANGED <<now, adj>>

IsrStart ==
    /\ env.x.pc = "cleared"
    /\ env.x.op < MaxIsrOps
    /\ env' = [env EXCEPT !.x.pc = "waiting", !.x.op = @ + 1, !.x.active = TRUE]
    /\ UNCHANGED <<node, now, adj>>

IsrStartRejected ==
    /\ env.x.pc = "cleared"
    /\ env.faults < MaxFaults
    /\ node' = [node EXCEPT ![Self] = tick(@, now, [Quiet EXCEPT !.start_ok = FALSE])]
    /\ env' = [env EXCEPT !.x.pc = "tick", !.faults = @ + 1]
    /\ UNCHANGED <<now, adj>>

(* The operation in progress completes: DIO1 rises and the handler runs. *)
IsrRise ==
    /\ env.x.active
    /\ env.x.set_by # env.x.op
    /\ node' = [node EXCEPT ![Self] = onDio1Rise(@)]
    /\ env' = [env EXCEPT !.x.set_by = env.x.op,
                          !.x.late = @ \/ env.x.pc = "tick"]
    /\ UNCHANGED <<now, adj>>

(* The while loop is left: the flag is set, or the deadline has passed. *)
IsrWaitEnd ==
    /\ env.x.pc = "waiting"
    /\ env' = [env EXCEPT !.x.pc = "waited"]
    /\ UNCHANGED <<node, now, adj>>

(* The flag is read and the state is left. *)
IsrDecide ==
    /\ env.x.pc = "waited"
    /\ \E f \in IsrFrames : \E r \in {"ok", "crc"} :
          node' = [node EXCEPT ![Self] =
                      tick(@, now, [Quiet EXCEPT !.done = node[Self].operation_done,
                                                 !.frame = f, !.read = r])]
    /\ env' = [env EXCEPT !.x.pc = "tick"]
    /\ UNCHANGED <<now, adj>>

(* The states that end the operation before anything else; Idle follows a  *)
(* rejected start.                                                         *)
IsrOther ==
    /\ env.x.pc = "tick"
    /\ node[Self].state \notin {"Tx", "Rx"}
    /\ node' = [node EXCEPT ![Self] = tick(@, now, Quiet)]
    /\ env' = [env EXCEPT !.x.active = @ /\ node[Self].state = "Idle"]
    /\ UNCHANGED <<now, adj>>

IsrBle == env.x.pc = "tick" /\ BleSend(Self, 1, TxtHi, TriageChat)

NextIsr ==
    \/ IsrClear \/ IsrStart \/ IsrStartRejected \/ IsrRise
    \/ IsrWaitEnd \/ IsrDecide \/ IsrOther \/ IsrBle

SpecIsr == InitIsr /\ [][NextIsr]_vars

(* C38: the flag value that ends a wait was set by the completion of the   *)
(* operation started in that same Tx or Rx state: a completion of an       *)
(* earlier operation, one that timed out and was followed by standby, is   *)
(* never taken for that of a later one, wherever the handler runs.         *)
C38_DoneFlagAttribution ==
    (env.x.pc \in {"waiting", "waited"} /\ node[Self].operation_done)
        => env.x.set_by = env.x.op

(* A completion came after its wait had timed out, and a later wait has    *)
(* ended with the flag set by its own operation.                           *)
C38_Witness ==
    /\ env.x.late
    /\ env.x.pc = "waited"
    /\ node[Self].operation_done
    /\ env.x.op >= 2
    /\ env.x.set_by = env.x.op


(***************************************************************************)
(* SpecTrip: node 1 and node 2 in reach of each other; one text for node 2 *)
(* arrives over BLE at node 1.  A DATA frame is on the air as the text     *)
(* queueBleMessage printed, which the receiver takes apart again.  The     *)
(* verdict of the classifier's trees on a text is left open: the text is   *)
(* chat, or one of two vital outputs.                                      *)
(***************************************************************************)
TripNodes == {1, 2}

TripGap == 2000
TripEnd == 4000

TxtPipe == <<"a", "|", "b">>
TxtPipeU == <<"o", "k", "|", "U", "2">>
TxtEvac == <<"E", "V", "A", "C">>
PayloadEvac == TxtEvac \o <<"|", "U", "3", "|", "F", "2", "|", "N", "0", "|", "L", "u", "n", "k", "n", "o", "w", "n">>

(* runTriage for vital_predict(x) # 1. *)
TriageRaw(text) == [is_vital |-> FALSE, wire_payload |-> text, intent |-> TxtChat, urgency |-> 0]

TriageEvac == [is_vital |-> TRUE, wire_payload |-> PayloadEvac, intent |-> TxtEvac, urgency |-> 3]

TripTexts == {TxtHi, TxtPipe, TxtPipeU}

TripTriage(text) == {TriageRaw(text), TriageWater, TriageEvac}

(* snprintf "D|%04X|%04X|%04X|%u|%u|%u|%s" for ids, msg_id, ttl and hops   *)
(* below 10.                                                               *)
DataText(f) ==
    <<"D">> \o Bar \o <<"0", "0", "0", ToString(f.from)>>
            \o Bar \o <<"0", "0", "0", ToString(f.origin)>>
            \o Bar \o <<"0", "0", "0", ToString(f.dst)>>
            \o Bar \o <<ToString(f.id)>> \o Bar \o <<ToString(f.ttl)>>
            \o Bar \o <<ToString(f.hops)>> \o Bar \o f.body

TripWire(f) == IF f.t = "D" THEN TextFrame(DataText(f)) ELSE f

InitTrip ==
    /\ node = [n \in TripNodes |-> begin(NodeObject(n), 0)]
    /\ now = 0
    /\ adj = {<<1, 2>>, <<2, 1>>}
    /\ env = [Env0 EXCEPT !.inbox = [n \in TripNodes |-> <<>>]]

TripTx(n) ==
    /\ Running(n, "Tx")
    /\ \A m \in DOMAIN node : ~Busy(m)
    /\ node' = [node EXCEPT ![n] = runStateTx(@, Quiet)]
    /\ env' = [env EXCEPT !.inbox = Deliver(@, n, TripWire(OnAir(n)))]
    /\ UNCHANGED <<now, adj>>

TripBle ==
    /\ NetQuiet
    /\ \E text \in TripTexts : \E triage \in TripTriage(text) : BleSend(1, 2, text, triage)

TripAdvance ==
    /\ NetQuiet
    /\ \A m \in DOMAIN node : ~Due(m)
    /\ now + TripGap <= TripEnd
    /\ now' = now + TripGap
    /\ UNCHANGED <<node, adj, env>>

NextTrip ==
    \/ \E n \in TripNodes :
          \/ TripTx(n) \/ NetRx(n) \/ NetRxDone(n) \/ NetTxDone(n)
          \/ NetWake(n) \/ NetRxTimeout(n)
    \/ TripBle
    \/ TripAdvance

SpecTrip == InitTrip /\ [][NextTrip]_vars

(* The history entries of s that are in use. *)
HistoryUsed(s) == {i \in 0..(kMaxMessageHistory - 1) : i < s.history_count}

TriageOfEntry(e) == <<e.vital, e.intent, e.urgency>>

(* The 'S' entry of node a and the 'R' entry of node b for the same DATA. *)
SentAndReceived(a, b, i, j) ==
    /\ node[a].history[i].direction = "S"
    /\ node[a].history[i].peer = b
    /\ node[b].history[j].direction = "R"
    /\ node[b].history[j].peer = a
    /\ node[b].history[j].msg_id = node[a].history[i].msg_id

(* C39: for every DATA delivered to its destination, the vital flag,       *)
(* intent and urgency of the receiver's 'R' history entry equal those of   *)
(* the sender's 'S' history entry, for vital payloads and for raw-text     *)
(* bodies alike, also for raw text that contains '|'.                      *)
C39_TriageRoundTrip ==
    \A a, b \in DOMAIN node : \A i \in HistoryUsed(node[a]) : \A j \in HistoryUsed(node[b]) :
        SentAndReceived(a, b, i, j) =>
            TriageOfEntry(node[b].history[j]) = TriageOfEntry(node[a].history[i])

(* The same for the bodies in which no "|U" occurs but in a vital payload. *)
TriageRoundTripMarked ==
    \A a, b \in DOMAIN node : \A i \in HistoryUsed(node[a]) : \A j \in HistoryUsed(node[b]) :
        (/\ SentAndReceived(a, b, i, j)
         /\ (node[a].history[i].vital \/ FindSub(node[a].history[i].body, <<"|", "U">>) = 0))
            => /\ TriageOfEntry(node[b].history[j]) = TriageOfEntry(node[a].history[i])
               /\ node[b].history[j].body = node[a].history[i].body

(* The chat text "ok|U2" stands in the receiver's history as vital. *)
ChatReadAsVital ==
    /\ node[1].history_count = 1
    /\ ~node[1].history[0].vital
    /\ node[2].history_count = 1
    /\ node[2].history[0].vital
    /\ node[2].history[0].body = TxtPipeU


(***************************************************************************)
(* SpecFlood: six nodes in a line 1 - 2 - ... - 6 on a lossless radio,     *)
(* before the first heartbeat is due.  A text arrives over BLE at node 1   *)
(* for node 6, or for node 7, which does not exist.  While the relay of    *)
(* node 2 is on its way back to node 1, node 1 may hear a burst of         *)
(* MaxFloodFill DATA frames of a distant node 9, each at the end of its    *)
(* flood (ttl 0, hops 4).  Each relay a node enqueues is noted in env.log. *)
(***************************************************************************)
FloodNodes == 1..6
FloodLine == {<<a, b>> \in FloodNodes \X FloodNodes : a = b + 1 \/ b = a + 1}
FloodDsts == {6, 7}

FloodGap == 500
FloodEnd == 500
MaxFloodFill == 64

FloodFrame(id) == DataFrame(9, 9, 8, id, 0, kDefaultTtl, TxtHi)

InitFlood ==
    /\ node = [n \in FloodNodes |-> begin(NodeObject(n), 0)]
    /\ now = 0
    /\ adj = FloodLine
    /\ env = [Env0 EXCEPT !.inbox = [n \in FloodNodes |-> <<>>]]

(* The record of a relay: who relayed which key. *)
RelayNote(n, f) == <<n, f.t, f.origin, f.id>>

(* runStateRx reading the next frame on the air. *)
FloodRx(n) ==
    /\ NetTurn(n)
    /\ Running(n, "Rx")
    /\ env.inbox[n] # <<>>
    /\ n = 1 => env.fill \in {0, MaxFloodFill}
    /\ node' = [node EXCEPT ![n] = runStateRx(@, now, [Quiet EXCEPT !.frame = Head(env.inbox[n])])]
    /\ env' = [env EXCEPT !.inbox[n] = Tail(@),
                          !.log = IF /\ node'[n].tx_q_size = node[n].tx_q_size + 1
                                     /\ Enqueued(n).t = Head(env.inbox[n]).t
                                  THEN Append(@, RelayNote(n, Head(env.inbox[n])))
                                  ELSE @]
    /\ UNCHANGED <<now, adj>>

(* Node 1 hears the next frame of the burst ahead of its own message. *)
FloodFill ==
    /\ NetTurn(1)
    /\ Running(1, "Rx")
    /\ env.inbox[1] # <<>>
    /\ Head(env.inbox[1]).origin = 1
    /\ env.fill < MaxFloodFill
    /\ node' = [node EXCEPT ![1] = runStateRx(@, now, [Quiet EXCEPT !.frame = FloodFrame(env.fill + 1)])]
    /\ env' = [env EXCEPT !.fill = @ + 1]
    /\ UNCHANGED <<now, adj>>

(* A text arrives over BLE at node 1 while no node has a frame to send. *)
FloodBle ==
    /\ NetQuiet
    /\ \A m \in DOMAIN node : ~Due(m)
    /\ \E dst \in FloodDsts : BleSend(1, dst, TxtHi, TriageChat)

FloodAdvance ==
    /\ NetQuiet
    /\ \A m \in DOMAIN node : ~Due(m)
    /\ now + FloodGap <= FloodEnd
    /\ now' = now + FloodGap
    /\ UNCHANGED <<node, adj, env>>

(* With nothing heard and nothing to do the receive of the first node     *)
(* times out.                                                              *)
FloodIdle(n) ==
    /\ NetQuiet
    /\ \A m \in DOMAIN node : ~Due(m) /\ n <= m
    /\ TickRxNothing(n)

NextFlood ==
    \/ \E n \in FloodNodes :
          \/ NetTx(n) \/ FloodRx(n) \/ NetRxDone(n) \/ NetTxDone(n)
          \/ NetWake(n) \/ NetRxTimeout(n) \/ FloodIdle(n)
    \/ FloodFill
    \/ FloodBle
    \/ FloodAdvance

SpecFlood == InitFlood /\ [][NextFlood]_vars

(* The loops of the nodes keep running, every radio wait ends, and the     *)
(* clock advances.                                                         *)
SpecFloodFair ==
    /\ SpecFlood
    /\ []<><<\E n \in DOMAIN node : TickedNode(n)>>_vars
    /\ WF_vars(FloodAdvance)

(* No DATA or ACK frame waits in any transmit queue. *)
FloodOver ==
    \A n \in DOMAIN node :
        \A k \in 1..node[n].tx_q_size : QueuedFrames(node[n])[k].t \notin {"D", "A"}

(* Every queued DATA or ACK frame has hops at most the default ttl. *)
HopsWithinTtl ==
    \A n \in DOMAIN node :
        \A k \in 1..node[n].tx_q_size :
            QueuedFrames(node[n])[k].t \in {"D", "A"} =>
                QueuedFrames(node[n])[k].hops <= kDefaultTtl

(* C40: for an originated DATA or ACK (origin, msg_id) each node enqueues  *)
(* at most one relay within the dedup window, the originator never relays  *)
(* its own message, no frame is enqueued with hops above the default ttl,  *)
(* and with no new originations and heartbeats all transmit queues         *)
(* eventually hold no DATA or ACK frame.                                   *)
C40_FloodTermination ==
    /\ [][\A n \in DOMAIN node :
             Relayed(n) =>
                /\ \A i \in DOMAIN env.log : env.log[i] # RelayNote(n, node'[n].rx_packet)
                /\ node'[n].rx_packet.origin # n]_vars
    /\ []HopsWithinTtl
    /\ <>[]FloodOver

(* C40 as amended: a node enqueues a relay of a DATA or ACK only when its  *)
(* seen table holds no live entry of the key on reception (the first copy, *)
(* or a copy whose entry has been replaced or has aged out), which covers  *)
(* the originator and its own message; no frame is enqueued with hops      *)
(* above the default ttl; and all transmit queues eventually hold no DATA  *)
(* or ACK frame.                                                           *)
C40_FloodTerminationAmended ==
    /\ [][\A n \in DOMAIN node :
             Relayed(n) =>
                ~SeenHit(node[n], node'[n].rx_packet.t, node'[n].rx_packet.origin,
                         node'[n].rx_packet.id, now)]_vars
    /\ []HopsWithinTtl
    /\ <>[]FloodOver

(* The flood is over: node 6 read the DATA for node 7 with ttl 0 and hops  *)
(* 4 and relayed nothing, and node 1 relayed its own message after the     *)
(* burst had replaced its key.                                             *)
C40_Witness ==
    /\ NetQuiet
    /\ FloodOver
    /\ \A n \in DOMAIN node : node[n].tx_q_size = 0
    /\ node[6].rx_packet.t = "D" /\ node[6].rx_packet.dst = 7
    /\ node[6].rx_packet.ttl = 0 /\ node[6].rx_packet.hops = kDefaultTtl
    /\ node[6].tx_count = 0
    /\ \E i \in DOMAIN env.log : env.log[i] = <<1, "D", 1, 1>>

====
